---- MODULE Spec2Model ----
(***************************************************************************)
(* Radical reconciliation tools of language-matrix:                        *)
(*   tests/tools/radicals/build_radicals_from_vocab.py  (the builder)      *)
(*   tests/tools/radicals/verify_radicals.py            (the validator)    *)
(*                                                                         *)
(* Python str values are modelled as sequences of Unicode codepoints, so   *)
(* that split, strip, join, sorting and substring tests are computed as    *)
(* Python computes them.  Files are modelled as records: an existence flag *)
(* and the rows csv.DictReader / csv.DictWriter exchange (one function     *)
(* from column name to field text per row).                                *)
(***************************************************************************)
EXTENDS Integers, Sequences, FiniteSets, TLC

(***************************************************************************)
(* Bounds of the model                                                     *)
(***************************************************************************)
MaxWords == 2      \* vocabulary rows over the three level files
MaxWordsFull == 1  \* the same, when radicals_214.csv is the 214-row table
MaxRuns == 2       \* builder runs in one behaviour

(***************************************************************************)
(* Text literals (codepoint sequences)                                     *)
(***************************************************************************)
basic == <<98, 97, 115, 105, 99>>  \* "basic"
intermediate == <<105, 110, 116, 101, 114, 109, 101, 100, 105, 97, 116, 101>>  \* "intermediate"
advanced == <<97, 100, 118, 97, 110, 99, 101, 100>>  \* "advanced"
kangxi_214 == <<107, 97, 110, 103, 120, 105, 95, 50, 49, 52>>  \* "kangxi_214"
variant == <<118, 97, 114, 105, 97, 110, 116>>  \* "variant"
component == <<99, 111, 109, 112, 111, 110, 101, 110, 116>>  \* "component"
VariantFormSuffix == <<32, 40, 118, 97, 114, 105, 97, 110, 116, 32, 102, 111, 114, 109, 41>>  \* " (variant form)"
ComponentFormSuffix == <<32, 40, 99, 111, 109, 112, 111, 110, 101, 110, 116, 32, 102, 111, 114, 109, 41>>  \* " (component form)"
VariantOfPrefix == <<118, 97, 114, 105, 97, 110, 116, 32, 111, 102, 32>>  \* "variant of "
ComponentForm == <<99, 111, 109, 112, 111, 110, 101, 110, 116, 32, 102, 111, 114, 109>>  \* "component form"
WordComponent == <<119, 111, 114, 100, 32, 99, 111, 109, 112, 111, 110, 101, 110, 116>>  \* "word component"
NotOfficialRadical == <<99, 104, 97, 114, 97, 99, 116, 101, 114, 32, 99, 111, 109, 112, 111, 110, 101, 110, 116, 32, 40, 110, 111, 116, 32, 111, 102, 102, 105, 99, 105, 97, 108, 32, 114, 97, 100, 105, 99, 97, 108, 41>>  \* "character component (not official radical)"
AlsoAWord == <<99, 104, 97, 114, 97, 99, 116, 101, 114, 32, 99, 111, 109, 112, 111, 110, 101, 110, 116, 32, 40, 97, 108, 115, 111, 32, 97, 32, 119, 111, 114, 100, 41>>  \* "character component (also a word)"
CommonCharacterComponent == <<99, 111, 109, 109, 111, 110, 32, 99, 104, 97, 114, 97, 99, 116, 101, 114, 32, 99, 111, 109, 112, 111, 110, 101, 110, 116>>  \* "common character component"
Che1 == <<99, 104, 275>>  \* "chē"
CarVehicle == <<99, 97, 114, 59, 32, 118, 101, 104, 105, 99, 108, 101>>  \* "car; vehicle"
CartVehicle == <<99, 97, 114, 116, 47, 118, 101, 104, 105, 99, 108, 101>>  \* "cart/vehicle"
Yan2 == <<121, 225, 110>>  \* "yán"
SpeechWord == <<115, 112, 101, 101, 99, 104, 59, 32, 119, 111, 114, 100>>  \* "speech; word"
SpeechRadical == <<115, 112, 101, 101, 99, 104, 32, 114, 97, 100, 105, 99, 97, 108>>  \* "speech radical"
Qi4 == <<113, 236>>  \* "qì"
SteamAir == <<115, 116, 101, 97, 109, 47, 97, 105, 114, 32, 114, 97, 100, 105, 99, 97, 108>>  \* "steam/air radical"
Air == <<97, 105, 114>>  \* "air"
Dou3 == <<100, 466, 117>>  \* "dǒu"
Dou4 == <<100, 242, 117>>  \* "dòu"
Shui3 == <<115, 104, 117, 464>>  \* "shuǐ"
Ju1 == <<106, 363>>  \* "jū"
Water == <<119, 97, 116, 101, 114>>  \* "water"
Car == <<99, 97, 114>>  \* "car"
Vehicle == <<118, 101, 104, 105, 99, 108, 101>>  \* "vehicle"
VariantFormText == <<118, 97, 114, 105, 97, 110, 116, 32, 102, 111, 114, 109>>  \* "variant form"
G_qi == <<27668>>  \* "气"
G_shui_side == <<27701>>  \* "氵"
G_shui == <<27700>>  \* "水"
G_che == <<36710>>  \* "车"
G_che_trad == <<36554>>  \* "車"
G_dou == <<26007>>  \* "斗"
G_yan_side == <<35744>>  \* "讠"
G_yan == <<35328>>  \* "言"
W_qiche == <<27773, 36710>>  \* "汽车"

(***************************************************************************)
(* Python str operations                                                   *)
(***************************************************************************)
PLUS == 43         \* '+'
COMMA == 44        \* ','

\* the characters str.strip() removes (str.isspace)
Whitespace ==
    (9..13) \cup (28..32) \cup {133, 160, 5760} \cup (8192..8202)
        \cup {8232, 8233, 8239, 8287, 12288}

RECURSIVE LStrip(_)
LStrip(s) ==
    IF s = <<>> THEN s
    ELSE IF Head(s) \in Whitespace THEN LStrip(Tail(s)) ELSE s

RECURSIVE RStrip(_)
RStrip(s) ==
    IF s = <<>> THEN s
    ELSE IF s[Len(s)] \in Whitespace THEN RStrip(SubSeq(s, 1, Len(s) - 1)) ELSE s

\* str.strip()
Strip(s) == RStrip(LStrip(s))

RECURSIVE SplitAcc(_, _, _)
SplitAcc(s, sep, cur) ==
    IF s = <<>> THEN <<cur>>
    ELSE IF Head(s) = sep THEN <<cur>> \o SplitAcc(Tail(s), sep, <<>>)
    ELSE SplitAcc(Tail(s), sep, Append(cur, Head(s)))

\* str.split(sep) for a one-character separator: "".split('+') is ['']
Split(s, sep) == SplitAcc(s, sep, <<>>)

RECURSIVE Join(_, _)
\* sep.join(list)
Join(sep, list) ==
    IF list = <<>> THEN <<>>
    ELSE IF Len(list) = 1 THEN list[1]
    ELSE list[1] \o <<sep>> \o Join(sep, Tail(list))

RECURSIVE StrLess(_, _)
\* a < b on Python str: lexicographic by codepoint
StrLess(a, b) ==
    IF b = <<>> THEN FALSE
    ELSE IF a = <<>> THEN TRUE
    ELSE IF Head(a) # Head(b) THEN Head(a) < Head(b)
    ELSE StrLess(Tail(a), Tail(b))

\* needle in haystack (Python substring test on str)
IsSubstring(needle, hay) ==
    \E i \in 0..(Len(hay) - Len(needle)) :
        SubSeq(hay, i + 1, i + Len(needle)) = needle

RECURSIVE IntToStr(_)
\* str(n) for n >= 0, as csv.DictWriter renders an int field
IntToStr(n) ==
    IF n < 10 THEN <<48 + n>>
    ELSE IntToStr(n \div 10) \o <<48 + (n % 10)>>

RECURSIVE SortedStrs(_)
\* sorted(set_of_str)
SortedStrs(S) ==
    IF S = {} THEN <<>>
    ELSE LET m == CHOOSE x \in S : \A y \in S \ {x} : StrLess(x, y)
         IN  <<m>> \o SortedStrs(S \ {m})

Range(f) == {f[i] : i \in DOMAIN f}

(***************************************************************************)
(* Module-level tables of the builder, restricted to the glyphs the model  *)
(* draws its inputs from                                                   *)
(***************************************************************************)
TRADITIONAL_FORMS ==
    (G_che :> <<G_che_trad, CartVehicle>>) @@ (G_yan_side :> <<G_yan, SpeechRadical>>)

VARIANT_TO_MAIN ==
    (G_shui_side :> G_shui) @@ (G_yan_side :> G_yan)

COMMON_COMPONENTS ==
    (G_che :> <<Che1, CarVehicle>>) @@ (G_yan :> <<Yan2, SpeechWord>>)

levels == <<basic, intermediate, advanced>>

fieldnames ==
    <<"Radical", "Pinyin", "Description", "Meaning", "Set", "Traditional",
      "Levels", "UsageCount", "MainRadical">>

(***************************************************************************)
(* Input files the behaviours start from                                   *)
(***************************************************************************)
CanonRow(r, p, d, m) == [Radical |-> r, Pinyin |-> p, Description |-> d, Meaning |-> m]

VocabRow(w, p, e, r) == [Word |-> w, Pinyin |-> p, English |-> e, Radicals |-> r]

\* the i-th Kangxi radical codepoint, U+2F00 .. U+2FD5
KangxiRow(i) == CanonRow(<<12031 + i>>, <<>>, <<>>, <<>>)

\* radicals_214.csv holding only the air radical
ScenarioCanon == <<CanonRow(G_qi, Qi4, SteamAir, Air)>>

\* a table with a repeated glyph and with glyphs that are also keys of the
\* variant map, the component table and the traditional-form table
DupCanon ==
    <<CanonRow(G_dou, Dou3, <<>>, <<>>), CanonRow(G_shui_side, Shui3, Water, Water),
      CanonRow(G_dou, Dou4, Water, Air), CanonRow(G_che, Che1, Car, Car)>>

\* 214 rows, 213 distinct glyphs (the repeated glyph of the shipped table)
Full214 ==
    [i \in 1..214 |->
        IF i = 1 THEN CanonRow(G_dou, Dou3, <<>>, <<>>)
        ELSE IF i = 2 THEN CanonRow(G_qi, Qi4, SteamAir, Air)
        ELSE IF i = 3 THEN CanonRow(G_shui, Shui3, Water, Water)
        ELSE IF i = 4 THEN CanonRow(G_dou, Dou4, Water, Air)
        ELSE KangxiRow(i)]

CanonFiles ==
    {[exists |-> FALSE, rows |-> <<>>]}
        \cup {[exists |-> TRUE, rows |-> t] :
                t \in {ScenarioCanon, DupCanon, Full214}}

W_douqi == <<26007, 27668>>  \* "斗气"
Decomp_qiche == <<27701, 43, 27668, 43, 36710>>  \* "氵+气+车"
Decomp_che ==  \* "车+讠+车+车+车+车"
    <<36710, 43, 35744, 43, 36710, 43, 36710, 43, 36710, 43, 36710>>
Decomp_douqi == <<32, 26007, 32, 43, 32, 27668, 43, 43, 12288>>  \* " 斗 + 气++　"

VocabRows ==
    {VocabRow(W_qiche, Qi4, Car, Decomp_qiche),
     VocabRow(G_che, Che1, Car, Decomp_che),
     VocabRow(W_douqi, Dou4, Air, Decomp_douqi),
     VocabRow(G_che, Ju1, Vehicle, <<>>)}

LevelSet == Range(levels)

\* the rows of one level file, in file order
RowsOfLevel(entries, lv) ==
    LET sel == SelectSeq(entries, LAMBDA e : e[1] = lv)
    IN  [i \in 1..Len(sel) |-> sel[i][2]]

\* the three level files with rows out of a set: one file without rows may
\* also be absent
VocabFilesOf(rowset) ==
    {[lv \in LevelSet |->
        [exists |-> (RowsOfLevel(entries, lv) # <<>>) \/ (lv \notin gone),
         rows |-> RowsOfLevel(entries, lv)]] :
        entries \in UNION {[1..n -> LevelSet \X rowset] : n \in 0..MaxWords},
        gone \in {{}} \cup {{lv} : lv \in LevelSet}}

VocabFiles == VocabFilesOf(VocabRows)

DerivedRow(r, lv) ==
    [c \in Range(fieldnames) |->
        IF c = "Radical" THEN r
        ELSE IF c = "Levels" THEN lv
        ELSE IF c = "Set" THEN component
        ELSE IF c = "Traditional" THEN r
        ELSE IF c = "UsageCount" THEN <<49>>
        ELSE <<>>]

\* drop columns from a table
Project(rows, cols) == [i \in 1..Len(rows) |-> [c \in cols |-> rows[i][c]]]

\* a stale radicals.csv: a repeated glyph, levels that no longer match
StaleRows ==
    <<DerivedRow(G_qi, basic), DerivedRow(G_che, Join(COMMA, <<advanced, basic>>)),
      DerivedRow(G_qi, intermediate)>>

\* a radicals.csv that lists every glyph under every level
AllRows ==
    LET all == Join(COMMA, <<advanced, basic, intermediate>>)
    IN  <<DerivedRow(G_qi, all), DerivedRow(G_che, all), DerivedRow(G_dou, all),
          DerivedRow(G_shui_side, all), DerivedRow(G_yan_side, all)>>

DerivedFiles ==
    {[exists |-> FALSE, header |-> {}, rows |-> <<>>],
     [exists |-> TRUE, header |-> Range(fieldnames), rows |-> StaleRows],
     [exists |-> TRUE, header |-> Range(fieldnames) \ {"Set"},
      rows |-> Project(AllRows, Range(fieldnames) \ {"Set"})],
     [exists |-> TRUE, header |-> Range(fieldnames) \ {"Radical"},
      rows |-> Project(AllRows, Range(fieldnames) \ {"Radical"})]}

(***************************************************************************)
(* State                                                                   *)
(***************************************************************************)
VARIABLES
    canonFile,        \* radicals_214.csv
    vocabFile,        \* basic.csv, intermediate.csv, advanced.csv
    derivedFile,      \* radicals.csv
    pc,               \* position of the running program, "idle" between runs
    radicals_214,     \* builder: glyph -> canonical entry
    radical_usage,    \* builder: glyph -> [count, levels, words]
    usage_order,      \* builder: insertion order of the keys of radical_usage
    vocab_lookup,     \* builder: word -> [Pinyin, Meaning]
    li,               \* builder: index into levels of the level being read
    ri,               \* builder: rows of that level already read
    custom_radicals,  \* builder: entries in usage-map order
    sorted_radicals,  \* builder: entries after sort_radicals
    outputs,          \* the tables written by the builder runs so far
    builderExit,      \* outcome of the last builder run
    errors,           \* validator: the errors list
    warnings,         \* validator: the warnings list
    radicals_map,     \* validator: glyph -> row of radicals.csv
    vli,              \* validator: index into levels of the level to scan
    findings,         \* validator: missing_radicals, wrong_level_radicals per level
    verifyExit        \* outcome of the last validator run

builderVars ==
    <<radicals_214, radical_usage, usage_order, vocab_lookup, li, ri,
      custom_radicals, sorted_radicals, outputs, builderExit>>

verifyVars == <<errors, warnings, radicals_map, vli, findings, verifyExit>>

inputVars == <<canonFile, vocabFile>>

\* the state of the builder and the validator
mainVars == <<inputVars, derivedFile, pc, builderVars, verifyVars>>

\* the parsing of one Radicals cell by the three programs that read it
VARIABLES
    radicals_cell,    \* the Radicals cell of a vocabulary row
    original_cell,    \* the cell before whitespace and empty pieces were added
    glyphs            \* program -> what the program made of radicals_cell

parseVars == <<radicals_cell, original_cell, glyphs>>

\* validate_radical_data.py and test_level_filtering of
\* test_word_radical_integration.py, which read the level files and radicals.csv
VARIABLES
    all_words,           \* validate_radical_data: the word_data of every row
    composition_counts,  \* validate_radical_data: number of glyphs -> words
    composable_words,    \* validate_radical_data: the composable word_data
    duplicates,          \* validate_radical_data: word -> levels, reported
    vrdExit,             \* outcome of validate_radical_data.main
    composable_count,    \* test_level_filtering: level -> composable words
    tlfExit              \* outcome of test_level_filtering

vrdVars ==
    <<all_words, composition_counts, composable_words, duplicates, vrdExit,
      composable_count, tlfExit>>

\* add_stroke_counts.py, which rewrites the two radical tables in place
VARIABLES
    radicals_file,       \* radicals.csv: header and rows as lists of cells
    radicals_214_file,   \* radicals_214.csv, likewise
    sc_pc,               \* "idle", or "second" between the two tables
    sc_runs              \* completed runs of main

strokeVars == <<radicals_file, radicals_214_file, sc_pc, sc_runs>>

\* split_all_levels.py, one call of split_level_audio
VARIABLES
    audio,             \* the recording: its length and its non-silent ranges
    hanzi_mapping,     \* the expected file names, in order
    output_dir,        \* the output directory: file name -> what the file holds
    idx,               \* position of the loop over the segments, 1-based
    processed_count,
    exported,          \* the names handed to export, in call order
    split_pc           \* "idle", "loop", "True", "False"

audioVars == <<audio, hanzi_mapping, output_dir, idx, processed_count, exported, split_pc>>

\* validate_multilang.py
VARIABLES
    matrix_index,   \* data/matrix_index.json: whether it is there, id -> entry
    lang_dirs,      \* data/languages/<lang>: language -> whether it is there
    csv_files,      \* <<lang, level>> -> the level file
    audio_dirs,     \* assets/audio/<style>: language -> folder and level folders
    all_errors,     \* main: the errors collected so far
    ml_pc,          \* "start", "index", "csv", "audio", "summary", "done"
    ml_exit         \* -1 while running, else the exit status

multilangVars == <<matrix_index, lang_dirs, csv_files, audio_dirs, all_errors, ml_pc, ml_exit>>

\* the state of the other tools
toolVars == <<parseVars, vrdVars, strokeVars, audioVars, multilangVars>>

\* what a step of one tool leaves alone
notParseVars == <<mainVars, vrdVars, strokeVars, audioVars, multilangVars>>

notVrdVars == <<canonFile, pc, builderVars, verifyVars, parseVars, strokeVars, audioVars,
                multilangVars>>

notStrokeVars == <<mainVars, parseVars, vrdVars, audioVars, multilangVars>>

notAudioVars == <<mainVars, parseVars, vrdVars, strokeVars, multilangVars>>

notMultilangVars == <<mainVars, parseVars, vrdVars, strokeVars, audioVars>>

vars == <<mainVars, toolVars>>

(***************************************************************************)
(* build_radicals_from_vocab.py                                            *)
(***************************************************************************)
EmptyMap == [k \in {} |-> <<>>]

RECURSIVE LoadRows214_last(_, _, _)
\* variation: every row is stored, so the later of two rows with one glyph stays
LoadRows214_last(rows, lo, hi) ==
    IF lo > hi THEN [k \in {} |-> <<>>]
    ELSE IF lo = hi
    THEN rows[lo].Radical :>
            [Radical |-> rows[lo].Radical, Pinyin |-> rows[lo].Pinyin,
             Description |-> rows[lo].Description, Meaning |-> rows[lo].Meaning,
             Set |-> kangxi_214]
    ELSE LET mid == (lo + hi) \div 2
         IN  LoadRows214_last(rows, mid + 1, hi) @@ LoadRows214_last(rows, lo, mid)

RECURSIVE LoadRows214(_, _, _)
\* the loop of load_radicals_214 over rows lo..hi: a glyph that is already a
\* key is not stored again, so of two rows with one glyph the earlier is kept
\* (f @@ g keeps f's value on a common key)
LoadRows214(rows, lo, hi) ==
    IF lo > hi THEN EmptyMap
    ELSE IF lo = hi
    THEN rows[lo].Radical :>
            [Radical |-> rows[lo].Radical, Pinyin |-> rows[lo].Pinyin,
             Description |-> rows[lo].Description, Meaning |-> rows[lo].Meaning,
             Set |-> kangxi_214]
    ELSE LET mid == (lo + hi) \div 2
         IN  LoadRows214(rows, lo, mid) @@ LoadRows214(rows, mid + 1, hi)

load_radicals_214(file) == LoadRows214(file.rows, 1, Len(file.rows))

\* variation: the piece is used as it stands, without strip()
AddRadical_nostrip(usage, piece, level, word) ==
    LET rad == piece
        old == IF rad \in DOMAIN usage.map THEN usage.map[rad]
               ELSE [count |-> 0, levels |-> {}, words |-> <<>>]
        new == [count |-> old.count + 1,
                levels |-> old.levels \cup {level},
                words |-> IF Len(old.words) < 5 THEN Append(old.words, word)
                          ELSE old.words]
    IN  IF rad = <<>> THEN usage
        ELSE [map |-> (rad :> new) @@ usage.map,
              order |-> IF rad \in DOMAIN usage.map THEN usage.order
                        ELSE Append(usage.order, rad)]

\* variation: a glyph is counted once for each word that has it
AddRadical_once_per_word(usage, piece, level, word) ==
    LET rad == Strip(piece)
        old == IF rad \in DOMAIN usage.map THEN usage.map[rad]
               ELSE [count |-> 0, levels |-> {}, words |-> <<>>]
        new == [count |-> IF word \in Range(old.words) THEN old.count ELSE old.count + 1,
                levels |-> old.levels \cup {level},
                words |-> IF Len(old.words) < 5 THEN Append(old.words, word)
                          ELSE old.words]
    IN  IF rad = <<>> THEN usage
        ELSE [map |-> (rad :> new) @@ usage.map,
              order |-> IF rad \in DOMAIN usage.map THEN usage.order
                        ELSE Append(usage.order, rad)]

\* variation: the example list keeps the five latest words
AddRadical_latest_words(usage, piece, level, word) ==
    LET rad == Strip(piece)
        old == IF rad \in DOMAIN usage.map THEN usage.map[rad]
               ELSE [count |-> 0, levels |-> {}, words |-> <<>>]
        new == [count |-> old.count + 1,
                levels |-> old.levels \cup {level},
                words |-> IF Len(old.words) < 5 THEN Append(old.words, word)
                          ELSE Append(Tail(old.words), word)]
    IN  IF rad = <<>> THEN usage
        ELSE [map |-> (rad :> new) @@ usage.map,
              order |-> IF rad \in DOMAIN usage.map THEN usage.order
                        ELSE Append(usage.order, rad)]

\* one pass of the inner loop of extract_radicals_from_vocab for one piece
AddRadical(usage, piece, level, word) ==
    LET rad == Strip(piece)
        old == IF rad \in DOMAIN usage.map THEN usage.map[rad]
               ELSE [count |-> 0, levels |-> {}, words |-> <<>>]
        new == [count |-> old.count + 1,
                levels |-> old.levels \cup {level},
                words |-> IF Len(old.words) < 5 THEN Append(old.words, word)
                          ELSE old.words]
    IN  IF rad = <<>> THEN usage
        ELSE [map |-> (rad :> new) @@ usage.map,
              order |-> IF rad \in DOMAIN usage.map THEN usage.order
                        ELSE Append(usage.order, rad)]

RECURSIVE AddRadicals(_, _, _, _)
AddRadicals(usage, pieces, level, word) ==
    IF pieces = <<>> THEN usage
    ELSE AddRadicals(AddRadical(usage, Head(pieces), level, word), Tail(pieces), level, word)

\* the body of the row loop of extract_radicals_from_vocab
ExtractRowUsage(usage, row, level) ==
    IF row.Radicals = <<>> THEN usage
    ELSE AddRadicals(usage, Split(row.Radicals, PLUS), level, row.Word)

\* variation: a later row of the same word replaces the stored reading and gloss
ExtractRowLookup_overwrite(lookup, row) ==
    IF row.Word # <<>>
    THEN (row.Word :> [Pinyin |-> row.Pinyin, Meaning |-> row.English]) @@ lookup
    ELSE lookup

ExtractRowLookup(lookup, row) ==
    IF row.Word # <<>> /\ row.Word \notin DOMAIN lookup
    THEN lookup @@ (row.Word :> [Pinyin |-> row.Pinyin, Meaning |-> row.English])
    ELSE lookup

\* variation: the levels are joined in curriculum order instead of sorted()
LevelsField_curriculum(usage) ==
    Join(COMMA, SelectSeq(levels, LAMBDA lv : lv \in usage.levels))

\* variation: only the first of the sorted levels is written
LevelsField_first(usage) == SortedStrs(usage.levels)[1]

LevelsField(usage) == Join(COMMA, SortedStrs(usage.levels))

\* build_custom_radicals, branch "rad in radicals_214": a copy of the canonical
\* entry with Levels, UsageCount and Traditional added
CanonicalEntry(r214, rad, usage) ==
    r214[rad] @@
    [Levels |-> LevelsField(usage), UsageCount |-> usage.count,
     Traditional |-> IF rad \in DOMAIN TRADITIONAL_FORMS
                     THEN TRADITIONAL_FORMS[rad][1] ELSE rad]

\* variation: a variant whose main radical is not canonical gets no target
VariantEntry_no_target(r214, rad, usage) ==
    LET main_rad == VARIANT_TO_MAIN[rad]
    IN  IF main_rad \in DOMAIN r214
        THEN [Radical |-> rad, Pinyin |-> r214[main_rad].Pinyin,
              Description |-> r214[main_rad].Description \o VariantFormSuffix,
              Meaning |-> r214[main_rad].Meaning \o ComponentFormSuffix,
              Set |-> variant, MainRadical |-> main_rad,
              Levels |-> LevelsField(usage), UsageCount |-> usage.count,
              Traditional |-> rad]
        ELSE [Radical |-> rad, Pinyin |-> <<>>,
              Description |-> VariantOfPrefix \o main_rad,
              Meaning |-> ComponentForm,
              Set |-> variant,
              Levels |-> LevelsField(usage), UsageCount |-> usage.count,
              Traditional |-> rad]

\* variation: the two suffixes of a matched variant change places
VariantEntry_swapped_suffixes(r214, rad, usage) ==
    LET main_rad == VARIANT_TO_MAIN[rad]
    IN  IF main_rad \in DOMAIN r214
        THEN [Radical |-> rad, Pinyin |-> r214[main_rad].Pinyin,
              Description |-> r214[main_rad].Description \o ComponentFormSuffix,
              Meaning |-> r214[main_rad].Meaning \o VariantFormSuffix,
              Set |-> variant, MainRadical |-> main_rad,
              Levels |-> LevelsField(usage), UsageCount |-> usage.count,
              Traditional |-> rad]
        ELSE [Radical |-> rad, Pinyin |-> <<>>,
              Description |-> VariantOfPrefix \o main_rad,
              Meaning |-> ComponentForm,
              Set |-> variant, MainRadical |-> main_rad,
              Levels |-> LevelsField(usage), UsageCount |-> usage.count,
              Traditional |-> rad]

\* variation: a variant whose main radical is not canonical gets the text
\* "variant of <main>" as its gloss too
VariantEntry_generic_gloss(r214, rad, usage) ==
    LET main_rad == VARIANT_TO_MAIN[rad]
    IN  IF main_rad \in DOMAIN r214
        THEN [Radical |-> rad, Pinyin |-> r214[main_rad].Pinyin,
              Description |-> r214[main_rad].Description \o VariantFormSuffix,
              Meaning |-> r214[main_rad].Meaning \o ComponentFormSuffix,
              Set |-> variant, MainRadical |-> main_rad,
              Levels |-> LevelsField(usage), UsageCount |-> usage.count,
              Traditional |-> rad]
        ELSE [Radical |-> rad, Pinyin |-> <<>>,
              Description |-> VariantOfPrefix \o main_rad,
              Meaning |-> VariantOfPrefix \o main_rad,
              Set |-> variant, MainRadical |-> main_rad,
              Levels |-> LevelsField(usage), UsageCount |-> usage.count,
              Traditional |-> rad]

\* build_custom_radicals, branch "rad in VARIANT_TO_MAIN"
VariantEntry(r214, rad, usage) ==
    LET main_rad == VARIANT_TO_MAIN[rad]
    IN  IF main_rad \in DOMAIN r214
        THEN [Radical |-> rad, Pinyin |-> r214[main_rad].Pinyin,
              Description |-> r214[main_rad].Description \o VariantFormSuffix,
              Meaning |-> r214[main_rad].Meaning \o ComponentFormSuffix,
              Set |-> variant, MainRadical |-> main_rad,
              Levels |-> LevelsField(usage), UsageCount |-> usage.count,
              Traditional |-> rad]
        ELSE [Radical |-> rad, Pinyin |-> <<>>,
              Description |-> VariantOfPrefix \o main_rad,
              Meaning |-> ComponentForm,
              Set |-> variant, MainRadical |-> main_rad,
              Levels |-> LevelsField(usage), UsageCount |-> usage.count,
              Traditional |-> rad]

\* variation: the common-component table is consulted before the vocabulary
ComponentEntry_common_first(rad, usage, lookup) ==
    LET pinyin == IF rad \in DOMAIN COMMON_COMPONENTS THEN COMMON_COMPONENTS[rad][1]
                  ELSE IF rad \in DOMAIN lookup THEN lookup[rad].Pinyin ELSE <<>>
        meaning == IF rad \in DOMAIN COMMON_COMPONENTS THEN COMMON_COMPONENTS[rad][2]
                   ELSE IF rad \in DOMAIN lookup THEN lookup[rad].Meaning
                   ELSE NotOfficialRadical
        description == IF rad \in DOMAIN COMMON_COMPONENTS THEN CommonCharacterComponent
                       ELSE IF rad \in DOMAIN lookup THEN AlsoAWord ELSE WordComponent
    IN  [Radical |-> rad, Pinyin |-> pinyin, Description |-> description,
         Meaning |-> meaning, Set |-> component,
         Levels |-> LevelsField(usage), UsageCount |-> usage.count,
         Traditional |-> rad]

\* variation: a component that is a key of TRADITIONAL_FORMS gets its
\* traditional form
ComponentEntry_traditional(rad, usage, lookup) ==
    LET pinyin == IF rad \in DOMAIN lookup THEN lookup[rad].Pinyin
                  ELSE IF rad \in DOMAIN COMMON_COMPONENTS
                       THEN COMMON_COMPONENTS[rad][1] ELSE <<>>
        meaning == IF rad \in DOMAIN lookup THEN lookup[rad].Meaning
                   ELSE IF rad \in DOMAIN COMMON_COMPONENTS
                        THEN COMMON_COMPONENTS[rad][2] ELSE NotOfficialRadical
        description == IF rad \in DOMAIN lookup THEN AlsoAWord
                       ELSE IF rad \in DOMAIN COMMON_COMPONENTS
                            THEN CommonCharacterComponent ELSE WordComponent
    IN  [Radical |-> rad, Pinyin |-> pinyin, Description |-> description,
         Meaning |-> meaning, Set |-> component,
         Levels |-> LevelsField(usage), UsageCount |-> usage.count,
         Traditional |-> IF rad \in DOMAIN TRADITIONAL_FORMS
                         THEN TRADITIONAL_FORMS[rad][1] ELSE rad]

\* build_custom_radicals, the else branch: vocabulary word, then common
\* component, else the generic texts
ComponentEntry(rad, usage, lookup) ==
    LET pinyin == IF rad \in DOMAIN lookup THEN lookup[rad].Pinyin
                  ELSE IF rad \in DOMAIN COMMON_COMPONENTS
                       THEN COMMON_COMPONENTS[rad][1] ELSE <<>>
        meaning == IF rad \in DOMAIN lookup THEN lookup[rad].Meaning
                   ELSE IF rad \in DOMAIN COMMON_COMPONENTS
                        THEN COMMON_COMPONENTS[rad][2] ELSE NotOfficialRadical
        description == IF rad \in DOMAIN lookup THEN AlsoAWord
                       ELSE IF rad \in DOMAIN COMMON_COMPONENTS
                            THEN CommonCharacterComponent ELSE WordComponent
    IN  [Radical |-> rad, Pinyin |-> pinyin, Description |-> description,
         Meaning |-> meaning, Set |-> component,
         Levels |-> LevelsField(usage), UsageCount |-> usage.count,
         Traditional |-> rad]

\* variation: the variant map is consulted before the canonical table
BuildEntry_variant_first(r214, rad, usage, lookup) ==
    IF rad \in DOMAIN VARIANT_TO_MAIN THEN VariantEntry(r214, rad, usage)
    ELSE IF rad \in DOMAIN r214 THEN CanonicalEntry(r214, rad, usage)
    ELSE ComponentEntry(rad, usage, lookup)

\* variation: a variant key counts as a variant only when its main radical is
\* in the canonical table
BuildEntry_variant_needs_main(r214, rad, usage, lookup) ==
    IF rad \in DOMAIN r214 THEN CanonicalEntry(r214, rad, usage)
    ELSE IF rad \in DOMAIN VARIANT_TO_MAIN /\ VARIANT_TO_MAIN[rad] \in DOMAIN r214
    THEN VariantEntry(r214, rad, usage)
    ELSE ComponentEntry(rad, usage, lookup)

\* one iteration of the loop of build_custom_radicals: if / elif / else
BuildEntry(r214, rad, usage, lookup) ==
    IF rad \in DOMAIN r214 THEN CanonicalEntry(r214, rad, usage)
    ELSE IF rad \in DOMAIN VARIANT_TO_MAIN THEN VariantEntry(r214, rad, usage)
    ELSE ComponentEntry(rad, usage, lookup)

\* variation: every key of the variant map gets an entry, used or not
build_custom_radicals_all_variants(r214, usage, order, lookup) ==
    LET unused == SortedStrs(DOMAIN VARIANT_TO_MAIN \ DOMAIN usage)
        none == [count |-> 0, levels |-> {}, words |-> <<>>]
    IN  [i \in 1..Len(order) |-> BuildEntry(r214, order[i], usage[order[i]], lookup)]
        \o [i \in 1..Len(unused) |-> BuildEntry(r214, unused[i], none, lookup)]

build_custom_radicals(r214, usage, order, lookup) ==
    [i \in 1..Len(order) |-> BuildEntry(r214, order[i], usage[order[i]], lookup)]

\* variation: the canonical branch fills in the dictionary's own entry instead
\* of a copy of it
radicals_214_after_build_aliased(r214, usage) ==
    [g \in DOMAIN r214 |->
        IF g \in DOMAIN usage THEN CanonicalEntry(r214, g, usage[g]) ELSE r214[g]]

\* the dictionary radicals_214 when build_custom_radicals returns: the
\* canonical branch assigns to radicals_214[rad].copy(), the variant branch only
\* reads radicals_214[main_rad], so no entry of the dictionary is assigned to
radicals_214_after_build(r214, usage) == r214

\* set_order.get(r.get('Set', 'component'), 3)
SetRank(r) ==
    LET s == IF "Set" \in DOMAIN r THEN r.Set ELSE component
    IN  IF s = kangxi_214 THEN 0
        ELSE IF s = variant THEN 1
        ELSE IF s = component THEN 2 ELSE 3

\* variation: the key is the glyph alone
KeyLess_glyph(a, b) == StrLess(a.Radical, b.Radical)

\* the sort key of sort_radicals compared as Python compares tuples
KeyLess(a, b) ==
    \/ SetRank(a) < SetRank(b)
    \/ SetRank(a) = SetRank(b) /\ StrLess(a.Radical, b.Radical)

RECURSIVE InsertByKey(_, _)
\* insert e behind every element that is not greater (sorted() is stable)
InsertByKey(e, s) ==
    IF s = <<>> THEN <<e>>
    ELSE IF KeyLess(e, Head(s)) THEN <<e>> \o s
    ELSE <<Head(s)>> \o InsertByKey(e, Tail(s))

RECURSIVE SortFrom(_, _)
SortFrom(rest, acc) ==
    IF rest = <<>> THEN acc ELSE SortFrom(Tail(rest), InsertByKey(Head(rest), acc))

sort_radicals(radicals) == SortFrom(radicals, <<>>)

\* the text csv.DictWriter writes for one field; a missing key is written empty
CsvField(entry, c) ==
    IF c \notin DOMAIN entry THEN <<>>
    ELSE IF c = "UsageCount" THEN IntToStr(entry[c])
    ELSE entry[c]

\* variation: the file is opened in append mode
write_radicals_csv_append(radicals, file) ==
    [exists |-> TRUE, header |-> Range(fieldnames),
     rows |-> [i \in 1..Len(file.rows) |->
                 [c \in Range(fieldnames) |->
                    IF c \in DOMAIN file.rows[i] THEN file.rows[i][c] ELSE <<>>]]
              \o [i \in 1..Len(radicals) |->
                    [c \in Range(fieldnames) |-> CsvField(radicals[i], c)]]]

\* variation: the table is brought up to date in place, rows of glyphs that
\* are not rebuilt stay
write_radicals_csv_merge(radicals, file) ==
    LET kept == SelectSeq(file.rows,
                   LAMBDA r : /\ "Radical" \in DOMAIN r
                              /\ \A i \in DOMAIN radicals : radicals[i].Radical # r.Radical)
    IN  [exists |-> TRUE, header |-> Range(fieldnames),
         rows |-> [i \in 1..Len(kept) |->
                     [c \in Range(fieldnames) |->
                        IF c \in DOMAIN kept[i] THEN kept[i][c] ELSE <<>>]]
                  \o [i \in 1..Len(radicals) |->
                        [c \in Range(fieldnames) |-> CsvField(radicals[i], c)]]]

\* the file at output_path after open(output_path, 'w') and the writer: mode
\* 'w' truncates whatever the file held
write_radicals_csv(radicals, file) ==
    [exists |-> TRUE, header |-> Range(fieldnames),
     rows |-> [i \in 1..Len(radicals) |->
                 [c \in Range(fieldnames) |-> CsvField(radicals[i], c)]]]

\* extract_radicals_from_vocab over the rows i.. of one level file
RECURSIVE ExtractRows(_, _, _, _)
ExtractRows(st, rows, lv, i) ==
    IF i > Len(rows) THEN st
    ELSE ExtractRows([usage |-> ExtractRowUsage(st.usage, rows[i], lv),
                      lookup |-> ExtractRowLookup(st.lookup, rows[i])],
                     rows, lv, i + 1)

\* extract_radicals_from_vocab over the levels k.., absent files skipped
RECURSIVE ExtractLevels(_, _, _)
ExtractLevels(st, files, k) ==
    IF k > Len(levels) THEN st
    ELSE IF ~files[levels[k]].exists THEN ExtractLevels(st, files, k + 1)
    ELSE ExtractLevels(ExtractRows(st, files[levels[k]].rows, levels[k], 1), files, k + 1)

extract_radicals_from_vocab(files) ==
    ExtractLevels([usage |-> [map |-> EmptyMap, order |-> <<>>], lookup |-> EmptyMap],
                  files, 1)

\* main as one function of radicals_214.csv and the level files: the table
\* written to output_path, whatever old_file held there
BuiltTable(canon, files, old_file) ==
    LET r214 == load_radicals_214(canon)
        ex == extract_radicals_from_vocab(files)
    IN  write_radicals_csv(
            sort_radicals(build_custom_radicals(r214, ex.usage.map, ex.usage.order,
                                                ex.lookup)),
            old_file)

(***************************************************************************)
(* verify_radicals.py                                                      *)
(***************************************************************************)
required_cols == <<"Radical", "Pinyin", "Set", "Levels">>

MinUnique == 213       \* unique < 213
ExpectedRows == 214    \* len(rows) != 214

\* row.get(col, '')
Get(row, col) == IF col \in DOMAIN row THEN row[col] ELSE <<>>

\* check 1: findings about radicals_214.csv
Check1Errors(file) ==
    IF ~file.exists THEN <<[kind |-> "no_radicals_214"]>>
    ELSE IF Cardinality({file.rows[i].Radical : i \in DOMAIN file.rows}) < MinUnique
    THEN <<[kind |-> "few_unique"]>>
    ELSE <<>>

Check1Warnings(file) ==
    IF file.exists /\ Len(file.rows) # ExpectedRows
    THEN <<[kind |-> "row_count"]>> ELSE <<>>

\* check 2: findings about the structure of radicals.csv
Check2Errors(file) ==
    IF ~file.exists THEN <<[kind |-> "no_radicals"]>>
    ELSE IF file.rows # <<>>
            /\ \E i \in DOMAIN required_cols : required_cols[i] \notin DOMAIN file.rows[1]
    THEN <<[kind |-> "missing_columns"]>>
    ELSE <<>>

RECURSIVE LoadMapRows(_, _)
\* radicals_map[row['Radical']] = row: a later row replaces an earlier one
LoadMapRows(rows, map) ==
    IF rows = <<>> THEN map
    ELSE LoadMapRows(Tail(rows), (Head(rows).Radical :> Head(rows)) @@ map)

\* the non-empty stripped pieces of one Radicals cell, as the scan visits them
ScanPieces(radicals_str) ==
    IF radicals_str = <<>> THEN <<>>
    ELSE LET pieces == Split(radicals_str, PLUS)
             stripped == [i \in 1..Len(pieces) |-> Strip(pieces[i])]
         IN  SelectSeq(stripped, LAMBDA rad : rad # <<>>)

\* every glyph reference of one level file, in scan order
RECURSIVE LevelRefs(_)
LevelRefs(rows) ==
    IF rows = <<>> THEN <<>>
    ELSE ScanPieces(Head(rows).Radicals) \o LevelRefs(Tail(rows))

RECURSIVE ScanRefs_equal(_, _, _, _)
\* variation: the Levels cell is compared with the level instead of searched
ScanRefs_equal(refs, level, map, acc) ==
    IF refs = <<>> THEN acc
    ELSE LET rad == Head(refs)
             next ==
                IF rad \notin DOMAIN map
                THEN [acc EXCEPT !.missing = @ \cup {rad}]
                ELSE IF level # Get(map[rad], "Levels")
                THEN [acc EXCEPT !.wrong = @ \cup {rad}]
                ELSE acc
         IN  ScanRefs_equal(Tail(refs), level, map, [next EXCEPT !.total = @ + 1])

RECURSIVE ScanRefs(_, _, _, _)
\* the if / elif of the scan loop applied to each reference in turn
ScanRefs(refs, level, map, acc) ==
    IF refs = <<>> THEN acc
    ELSE LET rad == Head(refs)
             next ==
                IF rad \notin DOMAIN map
                THEN [acc EXCEPT !.missing = @ \cup {rad}]
                ELSE IF ~IsSubstring(level, Get(map[rad], "Levels"))
                THEN [acc EXCEPT !.wrong = @ \cup {rad}]
                ELSE acc
         IN  ScanRefs(Tail(refs), level, map, [next EXCEPT !.total = @ + 1])

NoFindings == [missing |-> {}, wrong |-> {}, total |-> 0]

ScanLevel(rows, level, map) == ScanRefs(LevelRefs(rows), level, map, NoFindings)

ScanErrors(level, f) ==
    (IF f.missing # {} THEN <<[kind |-> "missing", level |-> level, n |-> Cardinality(f.missing)]>>
     ELSE <<>>)
    \o (IF f.wrong # {} THEN <<[kind |-> "wrong_level", level |-> level, n |-> Cardinality(f.wrong)]>>
        ELSE <<>>)

\* variation: warnings fail the run as well
Verdict_strict(errs, warns) ==
    IF errs # <<>> \/ warns # <<>> THEN "return1" ELSE "return0"

\* the summary: return 1 when errors is non-empty, 0 otherwise (warnings or not)
Verdict(errs, warns) == IF errs # <<>> THEN "return1" ELSE "return0"

(***************************************************************************)
(* Initial state: the files on disk, no program running                    *)
(***************************************************************************)
WordCount(files) ==
    Len(files[basic].rows) + Len(files[intermediate].rows) + Len(files[advanced].rows)

\* no program has been started
LocalsInit ==
    /\ pc = "idle"
    /\ radicals_214 = EmptyMap
    /\ radical_usage = EmptyMap
    /\ usage_order = <<>>
    /\ vocab_lookup = EmptyMap
    /\ li = 1
    /\ ri = 0
    /\ custom_radicals = <<>>
    /\ sorted_radicals = <<>>
    /\ outputs = <<>>
    /\ builderExit = "none"
    /\ errors = <<>>
    /\ warnings = <<>>
    /\ radicals_map = EmptyMap
    /\ vli = 1
    /\ findings = EmptyMap
    /\ verifyExit = "none"

\* a tool is not in use: its variables stay at these values
ParseIdle ==
    /\ radicals_cell = <<>>
    /\ original_cell = <<>>
    /\ glyphs = EmptyMap

VrdIdle ==
    /\ all_words = <<>>
    /\ composition_counts = EmptyMap
    /\ composable_words = <<>>
    /\ duplicates = EmptyMap
    /\ vrdExit = "none"
    /\ composable_count = EmptyMap
    /\ tlfExit = "none"

StrokeIdle ==
    /\ radicals_file = [exists |-> FALSE, fieldnames |-> <<>>, rows |-> <<>>]
    /\ radicals_214_file = [exists |-> FALSE, fieldnames |-> <<>>, rows |-> <<>>]
    /\ sc_pc = "idle"
    /\ sc_runs = 0

AudioIdle ==
    /\ audio = [length |-> 0, segments |-> <<>>]
    /\ hanzi_mapping = <<>>
    /\ output_dir = <<>>
    /\ idx = 1
    /\ processed_count = 0
    /\ exported = <<>>
    /\ split_pc = "idle"

MultilangIdle ==
    /\ matrix_index = [exists |-> FALSE, entries |-> <<>>]
    /\ lang_dirs = <<>>
    /\ csv_files = <<>>
    /\ audio_dirs = <<>>
    /\ all_errors = <<>>
    /\ ml_pc = "start"
    /\ ml_exit = -1

ToolsIdle(except) ==
    /\ except = "parse" \/ ParseIdle
    /\ except = "vrd" \/ VrdIdle
    /\ except = "stroke" \/ StrokeIdle
    /\ except = "audio" \/ AudioIdle
    /\ except = "multilang" \/ MultilangIdle

Init ==
    /\ canonFile \in CanonFiles
    /\ vocabFile \in VocabFiles
    /\ canonFile.rows = Full214 => WordCount(vocabFile) <= MaxWordsFull
    /\ derivedFile \in DerivedFiles
    /\ LocalsInit
    /\ ToolsIdle("none")

(***************************************************************************)
(* Builder run: main() of build_radicals_from_vocab.py                     *)
(***************************************************************************)
\* a loader that treats an absent canonical table as an empty one and goes on
BuilderLoad_tolerant ==
    /\ pc = "idle"
    /\ Len(outputs) < MaxRuns
    /\ radicals_214' = IF canonFile.exists THEN load_radicals_214(canonFile) ELSE EmptyMap
    /\ pc' = "extract"
    /\ builderExit' = "running"
    /\ radical_usage' = EmptyMap
    /\ usage_order' = <<>>
    /\ vocab_lookup' = EmptyMap
    /\ li' = 1
    /\ ri' = 0
    /\ custom_radicals' = <<>>
    /\ sorted_radicals' = <<>>
    /\ errors' = <<>>
    /\ warnings' = <<>>
    /\ radicals_map' = EmptyMap
    /\ vli' = 1
    /\ findings' = EmptyMap
    /\ verifyExit' = "none"
    /\ UNCHANGED <<inputVars, toolVars, derivedFile, outputs>>

\* main up to load_radicals_214: open() raises when the table is absent; what
\* an earlier validator run left in memory is gone when a new program starts
BuilderLoad ==
    /\ pc = "idle"
    /\ Len(outputs) < MaxRuns
    /\ IF canonFile.exists
       THEN /\ radicals_214' = load_radicals_214(canonFile)
            /\ pc' = "extract"
            /\ builderExit' = "running"
       ELSE /\ radicals_214' = EmptyMap
            /\ pc' = "idle"
            /\ builderExit' = "exception"
    /\ radical_usage' = EmptyMap
    /\ usage_order' = <<>>
    /\ vocab_lookup' = EmptyMap
    /\ li' = 1
    /\ ri' = 0
    /\ custom_radicals' = <<>>
    /\ sorted_radicals' = <<>>
    /\ errors' = <<>>
    /\ warnings' = <<>>
    /\ radicals_map' = EmptyMap
    /\ vli' = 1
    /\ findings' = EmptyMap
    /\ verifyExit' = "none"
    /\ UNCHANGED <<inputVars, toolVars, derivedFile, outputs>>

\* an extraction that gives the run up at the first level file that is not there
ExtractSkipLevel_abort ==
    /\ pc = "extract"
    /\ li <= Len(levels)
    /\ ~vocabFile[levels[li]].exists
    /\ pc' = "idle"
    /\ builderExit' = "exception"
    /\ UNCHANGED <<inputVars, toolVars, derivedFile, radicals_214, radical_usage, usage_order,
                   vocab_lookup, li, ri, custom_radicals, sorted_radicals, outputs,
                   verifyVars>>

\* extract_radicals_from_vocab: the level file is not there, warn and continue
ExtractSkipLevel ==
    /\ pc = "extract"
    /\ li <= Len(levels)
    /\ ~vocabFile[levels[li]].exists
    /\ li' = li + 1
    /\ ri' = 0
    /\ UNCHANGED <<inputVars, toolVars, derivedFile, pc, radicals_214, radical_usage, usage_order,
                   vocab_lookup, custom_radicals, sorted_radicals, outputs, builderExit,
                   verifyVars>>

\* extract_radicals_from_vocab: one row of the current level file
ExtractRow ==
    /\ pc = "extract"
    /\ li <= Len(levels)
    /\ vocabFile[levels[li]].exists
    /\ ri < Len(vocabFile[levels[li]].rows)
    /\ LET row == vocabFile[levels[li]].rows[ri + 1]
           usage == ExtractRowUsage([map |-> radical_usage, order |-> usage_order],
                                    row, levels[li])
       IN  /\ vocab_lookup' = ExtractRowLookup(vocab_lookup, row)
           /\ radical_usage' = usage.map
           /\ usage_order' = usage.order
    /\ ri' = ri + 1
    /\ UNCHANGED <<inputVars, toolVars, derivedFile, pc, radicals_214, li, custom_radicals,
                   sorted_radicals, outputs, builderExit, verifyVars>>

\* extract_radicals_from_vocab: the current level file is exhausted
ExtractEndLevel ==
    /\ pc = "extract"
    /\ li <= Len(levels)
    /\ vocabFile[levels[li]].exists
    /\ ri = Len(vocabFile[levels[li]].rows)
    /\ li' = li + 1
    /\ ri' = 0
    /\ UNCHANGED <<inputVars, toolVars, derivedFile, pc, radicals_214, radical_usage, usage_order,
                   vocab_lookup, custom_radicals, sorted_radicals, outputs, builderExit,
                   verifyVars>>

\* main: build_custom_radicals over the usage map in its iteration order
BuildCustomRadicals ==
    /\ pc = "extract"
    /\ li > Len(levels)
    /\ custom_radicals' =
          build_custom_radicals(radicals_214, radical_usage, usage_order, vocab_lookup)
    /\ radicals_214' = radicals_214_after_build(radicals_214, radical_usage)
    /\ pc' = "sort"
    /\ UNCHANGED <<inputVars, toolVars, derivedFile, radical_usage, usage_order,
                   vocab_lookup, li, ri, sorted_radicals, outputs, builderExit, verifyVars>>

\* main: sort_radicals
SortRadicals ==
    /\ pc = "sort"
    /\ sorted_radicals' = sort_radicals(custom_radicals)
    /\ pc' = "write"
    /\ UNCHANGED <<inputVars, toolVars, derivedFile, radicals_214, radical_usage, usage_order,
                   vocab_lookup, li, ri, custom_radicals, outputs, builderExit, verifyVars>>

\* main: write_radicals_csv, print_summary, return
WriteRadicalsCsv ==
    /\ pc = "write"
    /\ derivedFile' = write_radicals_csv(sorted_radicals, derivedFile)
    /\ outputs' = Append(outputs, derivedFile')
    /\ builderExit' = "done"
    /\ pc' = "idle"
    /\ UNCHANGED <<inputVars, toolVars, radicals_214, radical_usage, usage_order, vocab_lookup,
                   li, ri, custom_radicals, sorted_radicals, verifyVars>>

(***************************************************************************)
(* Validator run: main() of verify_radicals.py                             *)
(***************************************************************************)
\* checks 1 and 2
VerifyChecks ==
    /\ pc = "idle"
    /\ errors' = Check1Errors(canonFile) \o Check2Errors(derivedFile)
    /\ warnings' = Check1Warnings(canonFile)
    /\ radicals_map' = EmptyMap
    /\ findings' = EmptyMap
    /\ vli' = 1
    /\ verifyExit' = "running"
    /\ pc' = "v_load"
    /\ UNCHANGED <<inputVars, toolVars, derivedFile, builderVars>>

\* check 3, loading radicals_map: open() raises when radicals.csv is absent,
\* row['Radical'] raises when a row has no such column
VerifyLoadMap ==
    /\ pc = "v_load"
    /\ IF ~derivedFile.exists
          \/ (derivedFile.rows # <<>> /\ "Radical" \notin derivedFile.header)
       THEN /\ verifyExit' = "exception"
            /\ pc' = "idle"
            /\ UNCHANGED radicals_map
       ELSE /\ radicals_map' = LoadMapRows(derivedFile.rows, EmptyMap)
            /\ pc' = "v_scan"
            /\ UNCHANGED verifyExit
    /\ UNCHANGED <<inputVars, toolVars, derivedFile, builderVars, errors, warnings, vli, findings>>

\* check 3, one iteration of the level loop: the level file is absent
VerifySkipLevel ==
    /\ pc = "v_scan"
    /\ vli <= Len(levels)
    /\ ~vocabFile[levels[vli]].exists
    /\ warnings' = Append(warnings, [kind |-> "no_level_file", level |-> levels[vli]])
    /\ vli' = vli + 1
    /\ UNCHANGED <<inputVars, toolVars, derivedFile, pc, builderVars, errors, radicals_map,
                   findings, verifyExit>>

\* check 3, one iteration of the level loop: scan the level file
VerifyScanLevel ==
    /\ pc = "v_scan"
    /\ vli <= Len(levels)
    /\ vocabFile[levels[vli]].exists
    /\ LET f == ScanLevel(vocabFile[levels[vli]].rows, levels[vli], radicals_map)
       IN  /\ findings' = (levels[vli] :> f) @@ findings
           /\ errors' = errors \o ScanErrors(levels[vli], f)
    /\ vli' = vli + 1
    /\ UNCHANGED <<inputVars, toolVars, derivedFile, pc, builderVars, warnings, radicals_map,
                   verifyExit>>

\* the summary and the return of main
VerifySummary ==
    /\ pc = "v_scan"
    /\ vli > Len(levels)
    /\ verifyExit' = Verdict(errors, warnings)
    /\ pc' = "idle"
    /\ UNCHANGED <<inputVars, toolVars, derivedFile, builderVars, errors, warnings, radicals_map,
                   vli, findings>>

Next ==
    \/ BuilderLoad
    \/ ExtractSkipLevel
    \/ ExtractRow
    \/ ExtractEndLevel
    \/ BuildCustomRadicals
    \/ SortRadicals
    \/ WriteRadicalsCsv
    \/ VerifyChecks
    \/ VerifyLoadMap
    \/ VerifySkipLevel
    \/ VerifyScanLevel
    \/ VerifySummary

Spec == Init /\ [][Next]_vars

(***************************************************************************)
(* Vocabulary seen from outside the programs                               *)
(***************************************************************************)
\* the glyphs a level file refers to
GlyphsOfLevel(lv) ==
    {g \in UNION {Range(ScanPieces(vocabFile[lv].rows[i].Radicals)) :
                    i \in DOMAIN vocabFile[lv].rows} : TRUE}

UsedGlyphs == UNION {GlyphsOfLevel(lv) : lv \in LevelSet}

\* the glyphs of radicals_214.csv
CanonGlyphs == {canonFile.rows[i].Radical : i \in DOMAIN canonFile.rows}

\* the surface words of the vocabulary
VocabWords ==
    UNION {{vocabFile[lv].rows[i].Word : i \in DOMAIN vocabFile[lv].rows} : lv \in LevelSet}

\* a builder run has completed and radicals.csv is the table it wrote
BuilderDone == builderExit = "done"

DerivedRows == derivedFile.rows

RowsOfGlyph(g) == {i \in DOMAIN DerivedRows : DerivedRows[i].Radical = g}

(***************************************************************************)
(* Properties                                                              *)
(***************************************************************************)

\* C1: after a builder run every glyph used by a decomposition is the Radical
\* of exactly one row of radicals.csv, and the table has as many rows as the
\* usage map has keys.
C1_Completeness ==
    BuilderDone =>
        /\ \A g \in UsedGlyphs : Cardinality(RowsOfGlyph(g)) = 1
        /\ Len(DerivedRows) = Cardinality(DOMAIN radical_usage)

\* a run over a vocabulary that uses three or more glyphs, one of them twice,
\* and writes some pieces with surrounding whitespace
C1_Witness ==
    /\ BuilderDone
    /\ Cardinality(UsedGlyphs) >= 3
    /\ \E g \in DOMAIN radical_usage : radical_usage[g].count >= 2
    /\ \E lv \in LevelSet : \E i \in DOMAIN vocabFile[lv].rows :
          vocabFile[lv].rows[i].Radicals = Decomp_douqi

\* C2: every row of radicals.csv written by the builder has a glyph that some
\* decomposition uses; unused canonical radicals, variant keys and component
\* keys get no row.
C2_NoExtraneousRows ==
    BuilderDone => \A i \in DOMAIN DerivedRows : DerivedRows[i].Radical \in UsedGlyphs

\* a run that wrote rows while the canonical table, the variant map and the
\* component table each hold a glyph no word uses
C2_Witness ==
    /\ BuilderDone
    /\ DerivedRows # <<>>
    /\ CanonGlyphs \ UsedGlyphs # {}
    /\ DOMAIN VARIANT_TO_MAIN \ UsedGlyphs # {}
    /\ DOMAIN COMMON_COMPONENTS \ UsedGlyphs # {}

\* C3: a used glyph that is in the canonical table and also a key of the
\* variant map, the component table or the vocabulary lookup is written with
\* Set = kangxi_214.
C3_CanonicalPrecedence ==
    BuilderDone =>
        \A i \in DOMAIN DerivedRows :
            LET g == DerivedRows[i].Radical
            IN  (/\ g \in CanonGlyphs
                 /\ g \in DOMAIN VARIANT_TO_MAIN \cup DOMAIN COMMON_COMPONENTS \cup VocabWords)
                => /\ DerivedRows[i].Set = kangxi_214
                   /\ DerivedRows[i].Set # variant
                   /\ DerivedRows[i].MainRadical = <<>>

\* a table with one row whose glyph is canonical and a variant key, and one
\* whose glyph is canonical, a component key and a vocabulary word
C3_Witness ==
    /\ BuilderDone
    /\ \E i \in DOMAIN DerivedRows :
          DerivedRows[i].Radical \in CanonGlyphs \cap DOMAIN VARIANT_TO_MAIN
    /\ \E i \in DOMAIN DerivedRows :
          DerivedRows[i].Radical \in CanonGlyphs \cap DOMAIN COMMON_COMPONENTS \cap VocabWords

\* rank of an origin tag in the order canonical < variant < component
RankOfTag(tag) ==
    IF tag = kangxi_214 THEN 0 ELSE IF tag = variant THEN 1 ELSE 2

\* (rank, glyph) of row a is strictly smaller than that of row b
PairLess(a, b) ==
    \/ RankOfTag(a.Set) < RankOfTag(b.Set)
    \/ RankOfTag(a.Set) = RankOfTag(b.Set) /\ StrLess(a.Radical, b.Radical)

\* C4: the rows sort_radicals returns, and the builder writes, ascend strictly
\* by (origin rank, glyph): canonical before variant before component, glyphs
\* by codepoint, no two adjacent rows tie.
C4_SortOrder ==
    /\ pc = "write" =>
          \A i \in 1..(Len(sorted_radicals) - 1) :
              PairLess(sorted_radicals[i], sorted_radicals[i + 1])
    /\ BuilderDone =>
          \A i \in 1..(Len(DerivedRows) - 1) : PairLess(DerivedRows[i], DerivedRows[i + 1])

\* a table with all three origins, two rows of one origin, built from a usage
\* map whose iteration order is not the sorted order
C4_Witness ==
    /\ BuilderDone
    /\ {DerivedRows[i].Set : i \in DOMAIN DerivedRows} = {kangxi_214, variant, component}
    /\ \E i, j \in DOMAIN DerivedRows : i # j /\ DerivedRows[i].Set = DerivedRows[j].Set
    /\ custom_radicals # sorted_radicals

\* the levels, sorted as text
LevelsAscending == <<advanced, basic, intermediate>>

\* C5: the Levels cell of every written row is the comma-joined ascending
\* list of exactly the levels in which a decomposition uses the glyph.
C5_LevelAggregation ==
    BuilderDone =>
        \A i \in DOMAIN DerivedRows :
            DerivedRows[i].Levels =
                Join(COMMA, SelectSeq(LevelsAscending,
                        LAMBDA lv : DerivedRows[i].Radical \in GlyphsOfLevel(lv)))

\* a glyph referred to three times, by a basic word and an advanced word only
C5_Witness ==
    /\ BuilderDone
    /\ \E i \in DOMAIN DerivedRows :
          /\ DerivedRows[i].Levels = Join(COMMA, <<advanced, basic>>)
          /\ DerivedRows[i].Radical \in GlyphsOfLevel(basic) \cap GlyphsOfLevel(advanced)
          /\ DerivedRows[i].Radical \notin GlyphsOfLevel(intermediate)
          /\ radical_usage[DerivedRows[i].Radical].count >= 3

\* the first row of radicals_214.csv with glyph g
FirstCanonRow(g) ==
    canonFile.rows[CHOOSE i \in DOMAIN canonFile.rows :
                      /\ canonFile.rows[i].Radical = g
                      /\ \A j \in 1..(i - 1) : canonFile.rows[j].Radical # g]

\* C6: a builder run over a canonical table with repeated glyphs completes, and
\* the row written for a canonical glyph carries the reading, description and
\* gloss of the first row of that glyph.
C6_FirstWins ==
    /\ (pc = "extract" /\ canonFile.exists) => DOMAIN radicals_214 = CanonGlyphs
    /\ BuilderDone =>
          \A i \in DOMAIN DerivedRows :
              DerivedRows[i].Radical \in CanonGlyphs =>
                  LET first == FirstCanonRow(DerivedRows[i].Radical)
                  IN  /\ DerivedRows[i].Pinyin = first.Pinyin
                      /\ DerivedRows[i].Description = first.Description
                      /\ DerivedRows[i].Meaning = first.Meaning

\* a used glyph that radicals_214.csv lists twice with different readings
C6_Witness ==
    /\ BuilderDone
    /\ \E i, j \in DOMAIN canonFile.rows :
          /\ i < j
          /\ canonFile.rows[i].Radical = canonFile.rows[j].Radical
          /\ canonFile.rows[i].Pinyin # canonFile.rows[j].Pinyin
          /\ RowsOfGlyph(canonFile.rows[i].Radical) # {}

\* C7: all builder runs of a behaviour (the inputs never change) write the
\* same table: same rows, same cells, same order.
C7_Idempotence ==
    \A i, j \in DOMAIN outputs : outputs[i] = outputs[j]

\* two completed runs over a vocabulary with three or more glyphs, the first of
\* them over a radicals.csv that already existed
C7_Witness ==
    /\ Len(outputs) = 2
    /\ Len(outputs[2].rows) >= 3
    /\ pc = "idle"

\* the inputs of the end-to-end scenario: the canonical table holds the air
\* radical only, the one vocabulary row is the basic word for "car"
ScenarioInputs ==
    /\ canonFile.exists
    /\ canonFile.rows = ScenarioCanon
    /\ vocabFile[basic].rows = <<VocabRow(W_qiche, Qi4, Car, Decomp_qiche)>>
    /\ vocabFile[intermediate].rows = <<>>
    /\ vocabFile[advanced].rows = <<>>

\* the validator has returned and the table it loaded is the current radicals.csv
VerifiedCurrentTable ==
    /\ verifyExit \in {"return0", "return1"}
    /\ derivedFile.exists
    /\ radicals_map = LoadMapRows(derivedFile.rows, EmptyMap)

\* no level scanned by the validator has a missing or a wrong-level glyph
AllFindingsEmpty ==
    \A lv \in DOMAIN findings : findings[lv].missing = {} /\ findings[lv].wrong = {}

One == <<49>>  \* "1"

\* C8 as stated: in the scenario the table has three rows, the water side form
\* being a variant of the water radical whose description contains "variant
\* form" and the cart glyph a component with gloss "vehicle"; validation finds
\* nothing missing and nothing at a wrong level.
C8_Original ==
    (ScenarioInputs /\ BuilderDone) =>
        /\ Len(DerivedRows) = 3
        /\ \E i \in DOMAIN DerivedRows :
              /\ DerivedRows[i].Radical = G_qi
              /\ DerivedRows[i].Set = kangxi_214
              /\ DerivedRows[i].Levels = basic
              /\ DerivedRows[i].UsageCount = One
        /\ \E i \in DOMAIN DerivedRows :
              /\ DerivedRows[i].Radical = G_shui_side
              /\ DerivedRows[i].Set = variant
              /\ DerivedRows[i].MainRadical = G_shui
              /\ IsSubstring(VariantFormText, DerivedRows[i].Description)
              /\ DerivedRows[i].Levels = basic
              /\ DerivedRows[i].UsageCount = One
        /\ \E i \in DOMAIN DerivedRows :
              /\ DerivedRows[i].Radical = G_che
              /\ DerivedRows[i].Set = component
              /\ DerivedRows[i].Pinyin = Che1
              /\ DerivedRows[i].Meaning = Vehicle
              /\ DerivedRows[i].Levels = basic
              /\ DerivedRows[i].UsageCount = One
        /\ VerifiedCurrentTable => AllFindingsEmpty

\* C8, amended: the water radical is not in the scenario's canonical table, so
\* the variant row has an empty reading and the description "variant of" plus
\* the target, without the text "variant form"; the gloss of the cart glyph is
\* the "car; vehicle" of the builder's component table.
C8_Scenario ==
    (ScenarioInputs /\ BuilderDone) =>
        /\ Len(DerivedRows) = 3
        /\ \E i \in DOMAIN DerivedRows :
              /\ DerivedRows[i].Radical = G_qi
              /\ DerivedRows[i].Set = kangxi_214
              /\ DerivedRows[i].Levels = basic
              /\ DerivedRows[i].UsageCount = One
        /\ \E i \in DOMAIN DerivedRows :
              /\ DerivedRows[i].Radical = G_shui_side
              /\ DerivedRows[i].Set = variant
              /\ DerivedRows[i].MainRadical = G_shui
              /\ DerivedRows[i].Pinyin = <<>>
              /\ DerivedRows[i].Description = VariantOfPrefix \o G_shui
              /\ ~IsSubstring(VariantFormText, DerivedRows[i].Description)
              /\ DerivedRows[i].Levels = basic
              /\ DerivedRows[i].UsageCount = One
        /\ \E i \in DOMAIN DerivedRows :
              /\ DerivedRows[i].Radical = G_che
              /\ DerivedRows[i].Set = component
              /\ DerivedRows[i].Pinyin = Che1
              /\ DerivedRows[i].Meaning = CarVehicle
              /\ DerivedRows[i].Levels = basic
              /\ DerivedRows[i].UsageCount = One
        /\ VerifiedCurrentTable => AllFindingsEmpty

\* the scenario built and then validated: the basic level was scanned with its
\* three glyph references
C8_Witness ==
    /\ ScenarioInputs
    /\ BuilderDone
    /\ VerifiedCurrentTable
    /\ basic \in DOMAIN findings
    /\ findings[basic].total = 3

C10_Findings ==
    \A lv \in DOMAIN findings :
        LET refs == Range(LevelRefs(vocabFile[lv].rows))
        IN  /\ \A g \in refs :
                  /\ g \in findings[lv].missing <=> g \notin DOMAIN radicals_map
                  /\ g \in findings[lv].wrong <=>
                        /\ g \in DOMAIN radicals_map
                        /\ ~IsSubstring(lv, Get(radicals_map[g], "Levels"))
            /\ findings[lv].missing \cap findings[lv].wrong = {}
            /\ findings[lv].missing \cup findings[lv].wrong \subseteq refs

\* a level with a missing glyph, a wrong-level glyph and a glyph that is fine
C10_Witness ==
    \E lv \in DOMAIN findings :
        /\ findings[lv].missing # {}
        /\ findings[lv].wrong # {}
        /\ Range(LevelRefs(vocabFile[lv].rows))
              \ (findings[lv].missing \cup findings[lv].wrong) # {}


(***************************************************************************)
(* C11: when the canonical table is absent the builder aborts before       *)
(* radicals.csv is opened for writing: no step of any run changes the      *)
(* derived table or records an output, and the builder never gets past     *)
(* the loading of the canonical table.                                     *)
(***************************************************************************)
C11_AbortBeforeWrite ==
    [][~canonFile.exists =>
          /\ derivedFile' = derivedFile
          /\ outputs' = outputs
          /\ pc' \notin {"extract", "sort", "write"}
          /\ builderExit' \in {"none", "exception"}]_vars

\* the builder has aborted and a previous derived table with rows is on disk
C11_Witness ==
    /\ ~canonFile.exists
    /\ builderExit = "exception"
    /\ derivedFile.exists
    /\ derivedFile.rows # <<>>


\* some level of the curriculum has no vocabulary file
SomeLevelAbsent == \E lv \in LevelSet : ~vocabFile[lv].exists

C13_CanonicalUntouched ==
    [][/\ canonFile' = canonFile
       /\ pc \in {"extract", "sort", "write"} => radicals_214' = radicals_214]_vars

\* a run has completed and has written a row built from a canonical entry,
\* which still has the five fields it was loaded with
C13_Witness ==
    /\ BuilderDone
    /\ \E i \in DOMAIN DerivedRows :
          /\ DerivedRows[i].Set = kangxi_214
          /\ DerivedRows[i].Radical \in DOMAIN radicals_214
          /\ DerivedRows[i].Levels # <<>>
          /\ DOMAIN radicals_214[DerivedRows[i].Radical] =
                {"Radical", "Pinyin", "Description", "Meaning", "Set"}


\* no radicals.csv at all
NoDerivedFile == [exists |-> FALSE, header |-> {}, rows |-> <<>>]

(***************************************************************************)
(* C14: the table a run writes is a function of radicals_214.csv and the   *)
(* level files only: it is the table the same inputs give when there was   *)
(* no radicals.csv before, it has the nine columns, and no row of the      *)
(* previous table survives for a glyph the vocabulary does not refer to.   *)
(***************************************************************************)
C14_FreshTable ==
    [][pc = "write" =>
          /\ derivedFile' = BuiltTable(canonFile, vocabFile, NoDerivedFile)
          /\ derivedFile'.header = Range(fieldnames)
          /\ \A i \in DOMAIN derivedFile'.rows :
                derivedFile'.rows[i].Radical \in UsedGlyphs]_vars

\* the write is about to replace a table that lacks the Set column and has
\* rows of glyphs the vocabulary no longer refers to
C14_Witness ==
    /\ pc = "write"
    /\ sorted_radicals # <<>>
    /\ derivedFile.exists
    /\ "Set" \notin derivedFile.header
    /\ \E i \in DOMAIN derivedFile.rows : derivedFile.rows[i].Radical \notin UsedGlyphs


\* the validator has been started and is no longer running
VerifyEnded == verifyExit \in {"return0", "return1", "exception"}

(***************************************************************************)
(* C15 as stated: whatever the input, a validator run ends with its final  *)
(* report, and the report holds the findings of every level file that is   *)
(* there, scanned to its end against the table that was loaded; this also  *)
(* when check 2 has recorded that radicals.csv is missing.                 *)
(***************************************************************************)
C15_Original ==
    VerifyEnded =>
        /\ verifyExit \in {"return0", "return1"}
        /\ \A lv \in LevelSet :
              vocabFile[lv].exists =>
                 /\ lv \in DOMAIN findings
                 /\ findings[lv] = ScanLevel(vocabFile[lv].rows, lv, radicals_map)


\* the three origin tags
OriginTags == {kangxi_214, variant, component}

(***************************************************************************)
(* C16: every row of a written table has one of the three origin tags in   *)
(* its Set field, and its MainRadical field is non-empty exactly when the  *)
(* tag is variant; it then is the value of VARIANT_TO_MAIN for the glyph.  *)
(***************************************************************************)
C16_OriginAndTarget ==
    BuilderDone =>
        \A i \in DOMAIN DerivedRows :
            LET row == DerivedRows[i]
            IN  /\ row.Set \in OriginTags
                /\ row.MainRadical # <<>> <=> row.Set = variant
                /\ row.Set = variant =>
                      /\ row.Radical \in DOMAIN VARIANT_TO_MAIN
                      /\ row.MainRadical = VARIANT_TO_MAIN[row.Radical]

\* a written table with a canonical row, a component row and a variant row
\* whose target is not in the canonical table
C16_Witness ==
    /\ BuilderDone
    /\ \A t \in OriginTags : \E i \in DOMAIN DerivedRows : DerivedRows[i].Set = t
    /\ \E i \in DOMAIN DerivedRows :
          /\ DerivedRows[i].Set = variant
          /\ DerivedRows[i].MainRadical \notin CanonGlyphs


\* the used glyphs that are not canonical and are keys of the variant map,
\* by whether their main radical is in the canonical table
MatchedVariants ==
    {g \in UsedGlyphs : /\ g \notin CanonGlyphs
                        /\ g \in DOMAIN VARIANT_TO_MAIN
                        /\ VARIANT_TO_MAIN[g] \in CanonGlyphs}

UnmatchedVariants ==
    {g \in UsedGlyphs : /\ g \notin CanonGlyphs
                        /\ g \in DOMAIN VARIANT_TO_MAIN
                        /\ VARIANT_TO_MAIN[g] \notin CanonGlyphs}

(***************************************************************************)
(* C17: the row written for a variant glyph whose main radical is in the   *)
(* canonical table has the tag variant, the main radical as target, the    *)
(* main radical's reading, its description followed by " (variant form)"   *)
(* and its gloss followed by " (component form)".                          *)
(***************************************************************************)
C17_MatchedVariant ==
    BuilderDone =>
        \A g \in MatchedVariants :
            /\ RowsOfGlyph(g) # {}
            /\ \A i \in RowsOfGlyph(g) :
                  LET row == DerivedRows[i]
                      base == FirstCanonRow(VARIANT_TO_MAIN[g])
                  IN  /\ row.Set = variant
                      /\ row.MainRadical = VARIANT_TO_MAIN[g]
                      /\ row.Pinyin = base.Pinyin
                      /\ row.Description = base.Description \o VariantFormSuffix
                      /\ row.Meaning = base.Meaning \o ComponentFormSuffix

\* a written table with the row of the water side form, the water radical
\* being in the canonical table with a reading and two different texts
C17_Witness ==
    /\ BuilderDone
    /\ G_shui_side \in MatchedVariants
    /\ \E i \in RowsOfGlyph(G_shui_side) :
          /\ DerivedRows[i].Pinyin = Shui3
          /\ DerivedRows[i].Description # DerivedRows[i].Meaning

(***************************************************************************)
(* C18 as stated: the row written for a variant glyph whose main radical   *)
(* is not in the canonical table has the tag variant, the main radical as  *)
(* target, an empty reading, and the text "variant of <main radical>" both *)
(* as description and as gloss.                                            *)
(***************************************************************************)
C18_Original ==
    BuilderDone =>
        \A g \in UnmatchedVariants :
            /\ RowsOfGlyph(g) # {}
            /\ \A i \in RowsOfGlyph(g) :
                  LET row == DerivedRows[i]
                  IN  /\ row.Set = variant
                      /\ row.MainRadical = VARIANT_TO_MAIN[g]
                      /\ row.Pinyin = <<>>
                      /\ row.Description = VariantOfPrefix \o VARIANT_TO_MAIN[g]
                      /\ row.Meaning = VariantOfPrefix \o VARIANT_TO_MAIN[g]

(***************************************************************************)
(* C18: the row written for a variant glyph whose main radical is not in   *)
(* the canonical table has the tag variant, the main radical as target, an *)
(* empty reading, the description "variant of <main radical>" and the      *)
(* gloss "component form".                                                 *)
(***************************************************************************)
C18_UnmatchedVariant ==
    BuilderDone =>
        \A g \in UnmatchedVariants :
            /\ RowsOfGlyph(g) # {}
            /\ \A i \in RowsOfGlyph(g) :
                  LET row == DerivedRows[i]
                  IN  /\ row.Set = variant
                      /\ row.MainRadical = VARIANT_TO_MAIN[g]
                      /\ row.Pinyin = <<>>
                      /\ row.Description = VariantOfPrefix \o VARIANT_TO_MAIN[g]
                      /\ row.Meaning = ComponentForm

\* a written table with the rows of two variant glyphs, the water side form
\* and the speech side form, whose main radicals are not canonical
C18_Witness ==
    /\ BuilderDone
    /\ {G_shui_side, G_yan_side} \subseteq UnmatchedVariants
    /\ \A g \in {G_shui_side, G_yan_side} : RowsOfGlyph(g) # {}


\* the used glyphs that are neither canonical nor keys of the variant map
ComponentGlyphs ==
    {g \in UsedGlyphs : g \notin CanonGlyphs /\ g \notin DOMAIN VARIANT_TO_MAIN}

\* the vocabulary rows in the order the builder reads them
AllVocabRows ==
    vocabFile[basic].rows \o vocabFile[intermediate].rows \o vocabFile[advanced].rows

\* the first vocabulary row whose word is w
FirstVocabRow(w) ==
    AllVocabRows[CHOOSE i \in DOMAIN AllVocabRows :
                    /\ AllVocabRows[i].Word = w
                    /\ \A j \in 1..(i - 1) : AllVocabRows[j].Word # w]

(***************************************************************************)
(* C19: the row written for a glyph that is neither canonical nor a key of *)
(* the variant map has the tag component; when the glyph is a vocabulary   *)
(* word the row has that word's reading and gloss and the description      *)
(* "character component (also a word)", also when the glyph is in          *)
(* COMMON_COMPONENTS; otherwise, when it is in COMMON_COMPONENTS, it has   *)
(* that table's reading and gloss and the description "common character    *)
(* component"; otherwise the reading is empty, the description "word       *)
(* component" and the gloss "character component (not official radical)".  *)
(***************************************************************************)
C19_ComponentSources ==
    BuilderDone =>
        \A g \in ComponentGlyphs :
            /\ RowsOfGlyph(g) # {}
            /\ \A i \in RowsOfGlyph(g) :
                  LET row == DerivedRows[i]
                  IN  /\ row.Set = component
                      /\ IF g \in VocabWords
                         THEN /\ row.Pinyin = FirstVocabRow(g).Pinyin
                              /\ row.Meaning = FirstVocabRow(g).English
                              /\ row.Description = AlsoAWord
                         ELSE IF g \in DOMAIN COMMON_COMPONENTS
                         THEN /\ row.Pinyin = COMMON_COMPONENTS[g][1]
                              /\ row.Meaning = COMMON_COMPONENTS[g][2]
                              /\ row.Description = CommonCharacterComponent
                         ELSE /\ row.Pinyin = <<>>
                              /\ row.Meaning = NotOfficialRadical
                              /\ row.Description = WordComponent

\* a written table with the row of the cart glyph, which is a vocabulary word
\* and a key of COMMON_COMPONENTS with another gloss, and the row of a glyph
\* that is in neither
C19_Witness ==
    /\ BuilderDone
    /\ G_che \in ComponentGlyphs \cap VocabWords \cap DOMAIN COMMON_COMPONENTS
    /\ FirstVocabRow(G_che).English # COMMON_COMPONENTS[G_che][2]
    /\ RowsOfGlyph(G_che) # {}
    /\ \E g \in ComponentGlyphs \ (VocabWords \cup DOMAIN COMMON_COMPONENTS) :
          RowsOfGlyph(g) # {}

(***************************************************************************)
(* C20: the Traditional field of a written row is TRADITIONAL_FORMS[glyph] *)
(* when the glyph is canonical and a key of that table, and the glyph      *)
(* itself in every other case, key of the table or not; the Radical field  *)
(* is the glyph as the vocabulary has it.                                  *)
(***************************************************************************)
C20_Traditional ==
    BuilderDone =>
        \A i \in DOMAIN DerivedRows :
            LET row == DerivedRows[i]
            IN  /\ row.Radical \in UsedGlyphs
                /\ row.Traditional =
                      IF row.Radical \in CanonGlyphs /\ row.Radical \in DOMAIN TRADITIONAL_FORMS
                      THEN TRADITIONAL_FORMS[row.Radical][1]
                      ELSE row.Radical

\* a written table with a canonical row whose Traditional differs from its
\* Radical and a variant row whose glyph is a key of TRADITIONAL_FORMS
C20_Witness ==
    /\ BuilderDone
    /\ \E i \in DOMAIN DerivedRows :
          /\ DerivedRows[i].Set = kangxi_214
          /\ DerivedRows[i].Traditional # DerivedRows[i].Radical
    /\ \E i \in DOMAIN DerivedRows :
          /\ DerivedRows[i].Set = variant
          /\ DerivedRows[i].Radical \in DOMAIN TRADITIONAL_FORMS
          /\ DerivedRows[i].Traditional = DerivedRows[i].Radical


\* how often glyph g is a trimmed piece of decomposition d
OccurrencesIn(d, g) ==
    LET pieces == Split(d, PLUS)
    IN  Cardinality({k \in DOMAIN pieces : Strip(pieces[k]) = g})

\* how many trimmed pieces of decomposition d are not empty
ReferencesIn(d) ==
    LET pieces == Split(d, PLUS)
    IN  Cardinality({k \in DOMAIN pieces : Strip(pieces[k]) # <<>>})

\* the occurrences of g over vocabulary rows
RECURSIVE Occurrences(_, _)
Occurrences(g, rows) ==
    IF rows = <<>> THEN 0
    ELSE OccurrencesIn(Head(rows).Radicals, g) + Occurrences(g, Tail(rows))

\* the component references of vocabulary rows
RECURSIVE References(_)
References(rows) ==
    IF rows = <<>> THEN 0
    ELSE ReferencesIn(Head(rows).Radicals) + References(Tail(rows))

\* the number a text of decimal digits stands for
RECURSIVE StrToInt(_)
StrToInt(s) ==
    IF s = <<>> THEN 0
    ELSE 10 * StrToInt(SubSeq(s, 1, Len(s) - 1)) + (s[Len(s)] - 48)

\* the UsageCount values of table rows, added up
RECURSIVE SumUsageCount(_)
SumUsageCount(rows) ==
    IF rows = <<>> THEN 0
    ELSE StrToInt(Head(rows).UsageCount) + SumUsageCount(Tail(rows))

(***************************************************************************)
(* C21: the UsageCount of a written row is the number of times its glyph   *)
(* is a non-empty trimmed piece of a decomposition, over all rows of all   *)
(* level files, every repetition counted; the UsageCount values add up to  *)
(* the number of component references of the vocabulary.                   *)
(***************************************************************************)
C21_UsageCount ==
    BuilderDone =>
        LET vocabulary == AllVocabRows
            table == DerivedRows
        IN  /\ \A i \in DOMAIN table :
                  table[i].UsageCount = IntToStr(Occurrences(table[i].Radical, vocabulary))
            /\ SumUsageCount(table) = References(vocabulary)

\* a written table with a glyph that is repeated inside one decomposition and
\* used by the same word in two levels, ten times in all
C21_Witness ==
    /\ BuilderDone
    /\ \E i \in DOMAIN DerivedRows :
          /\ DerivedRows[i].UsageCount = <<49, 48>>
          /\ Cardinality(radical_usage[DerivedRows[i].Radical].levels) = 2
          /\ Len(AllVocabRows) = 2
          /\ AllVocabRows[1].Word = AllVocabRows[2].Word


\* the rows the extraction pass has gone through: the files of the levels
\* before the current one and the first ri rows of the current file
RECURSIVE RowsBefore(_)
RowsBefore(k) ==
    IF k = 0 THEN <<>>
    ELSE RowsBefore(k - 1) \o
         (IF k > Len(levels) \/ ~vocabFile[levels[k]].exists THEN <<>>
          ELSE IF k = li THEN SubSeq(vocabFile[levels[k]].rows, 1, ri)
          ELSE vocabFile[levels[k]].rows)

ProcessedRows == RowsBefore(IF li > Len(levels) THEN Len(levels) ELSE li)

\* the word of each occurrence of g in vocabulary rows, in order
RECURSIVE OccurrenceWords(_, _)
OccurrenceWords(g, rows) ==
    IF rows = <<>> THEN <<>>
    ELSE [k \in 1..OccurrencesIn(Head(rows).Radicals, g) |-> Head(rows).Word]
         \o OccurrenceWords(g, Tail(rows))

MaxExamples == 5

Min(a, b) == IF a < b THEN a ELSE b

(***************************************************************************)
(* C22: at every step of the extraction pass and after it, the example     *)
(* list of each glyph of the usage map has min(5, count) words, the count  *)
(* being the occurrences of the glyph in the rows gone through so far, and *)
(* the words are those of the first occurrences in processing order.       *)
(***************************************************************************)
C22_ExampleWords ==
    \A g \in DOMAIN radical_usage :
        LET occ == OccurrenceWords(g, ProcessedRows)
            rec == radical_usage[g]
        IN  /\ rec.count = Len(occ)
            /\ Len(rec.words) = Min(MaxExamples, rec.count)
            /\ rec.words = SubSeq(occ, 1, Len(rec.words))

\* in the middle of the pass a glyph has been met six times or more, under
\* two different words, and its list has stopped at five
C22_Witness ==
    /\ pc = "extract"
    /\ li <= Len(levels)
    /\ \E g \in DOMAIN radical_usage :
          /\ radical_usage[g].count > MaxExamples
          /\ Len(radical_usage[g].words) = MaxExamples
          /\ radical_usage[g].words[1] # radical_usage[g].words[MaxExamples]


\* the words of vocabulary rows
WordsOf(rows) == {rows[i].Word : i \in DOMAIN rows} \ {<<>>}

\* the first of the rows whose word is w
FirstRowOf(rows, w) ==
    rows[CHOOSE i \in DOMAIN rows :
            /\ rows[i].Word = w
            /\ \A j \in 1..(i - 1) : rows[j].Word # w]

(***************************************************************************)
(* C23: during and after the extraction pass the keys of vocab_lookup are  *)
(* the non-empty words of the rows gone through, rows with an empty        *)
(* decomposition included, and each word has the reading and the gloss of  *)
(* its first row in processing order.                                      *)
(***************************************************************************)
C23_LookupFirstWins ==
    LET rows == ProcessedRows
    IN  /\ DOMAIN vocab_lookup = WordsOf(rows)
        /\ \A w \in DOMAIN vocab_lookup :
              LET first == FirstRowOf(rows, w)
              IN  /\ vocab_lookup[w].Pinyin = first.Pinyin
                  /\ vocab_lookup[w].Meaning = first.English

\* the pass has gone through two rows of one word with different readings and
\* glosses, the first of them with an empty decomposition
C23_Witness ==
    /\ pc = "extract"
    /\ Len(ProcessedRows) = 2
    /\ ProcessedRows[1].Word = ProcessedRows[2].Word
    /\ ProcessedRows[1].Radicals = <<>>
    /\ ProcessedRows[1].Pinyin # ProcessedRows[2].Pinyin
    /\ ProcessedRows[1].English # ProcessedRows[2].English
    /\ vocab_lookup[ProcessedRows[1].Word].Pinyin = ProcessedRows[1].Pinyin


(***************************************************************************)
(* The Radicals cell as the builder, verify_radicals and                   *)
(* validate_radical_data read it                                           *)
(***************************************************************************)
MaxCell == 4

\* the characters of a cell: two glyphs, the separator and a blank
CellAlphabet == {36710, 27668, PLUS, 32}

\* the whitespace put around pieces: a blank and the ideographic space
PadChars == {32, 12288}

Cells == UNION {[1..n -> CellAlphabet] : n \in 0..MaxCell}

\* variation: the pieces are tested before they are stripped
ParseRadicals_filter_first(str) ==
    LET pieces == Split(str, PLUS)
        kept == SelectSeq(pieces, LAMBDA r : r # <<>>)
    IN  [i \in 1..Len(kept) |-> Strip(kept[i])]

\* validate_radical_data.load_vocabulary:
\* [r.strip() for r in radicals_str.split('+') if r.strip()]
ParseRadicals(str) ==
    LET pieces == Split(str, PLUS)
        kept == SelectSeq(pieces, LAMBDA r : Strip(r) # <<>>)
    IN  [i \in 1..Len(kept) |-> Strip(kept[i])]

\* the builder's pass over a row with this cell, from an empty usage map
BuilderUsageOf(str) ==
    ExtractRowUsage([map |-> EmptyMap, order |-> <<>>],
                    VocabRow(W_qiche, Qi4, Car, str), basic)

\* position p of s (p characters to its left) is at the edge of a piece: only
\* whitespace lies between it and the separator, or the end, on one side
LeftBlank(s, p) ==
    \A k \in 1..p : (\A j \in k..p : s[j] # PLUS) => s[k] \in Whitespace

RightBlank(s, p) ==
    \A k \in (p + 1)..Len(s) : (\A j \in (p + 1)..k : s[j] # PLUS) => s[k] \in Whitespace

InsertAt(s, p, c) == SubSeq(s, 1, p) \o <<c>> \o SubSeq(s, p + 1, Len(s))

InitParse ==
    /\ canonFile = [exists |-> FALSE, rows |-> <<>>]
    /\ vocabFile = [lv \in LevelSet |-> [exists |-> FALSE, rows |-> <<>>]]
    /\ derivedFile = [exists |-> FALSE, header |-> {}, rows |-> <<>>]
    /\ LocalsInit
    /\ ToolsIdle("parse")
    /\ radicals_cell \in Cells
    /\ original_cell = radicals_cell
    /\ glyphs = EmptyMap

\* build_radicals_from_vocab reads the cell
ParseBuilder ==
    /\ "builder" \notin DOMAIN glyphs
    /\ glyphs' = glyphs @@ ("builder" :> BuilderUsageOf(radicals_cell))
    /\ UNCHANGED <<radicals_cell, original_cell, notParseVars>>

\* verify_radicals reads the cell
ParseVerify ==
    /\ "verify" \notin DOMAIN glyphs
    /\ glyphs' = glyphs @@ ("verify" :> ScanPieces(radicals_cell))
    /\ UNCHANGED <<radicals_cell, original_cell, notParseVars>>

\* validate_radical_data reads the cell
ParseValidate ==
    /\ "validate" \notin DOMAIN glyphs
    /\ glyphs' = glyphs @@ ("validate" :> ParseRadicals(radicals_cell))
    /\ UNCHANGED <<radicals_cell, original_cell, notParseVars>>

\* the cell is edited: whitespace is put at the edge of a piece
PadWhitespace ==
    /\ Len(radicals_cell) < MaxCell
    /\ \E p \in 0..Len(radicals_cell), c \in PadChars :
          /\ LeftBlank(radicals_cell, p) \/ RightBlank(radicals_cell, p)
          /\ radicals_cell' = InsertAt(radicals_cell, p, c)
    /\ glyphs' = EmptyMap
    /\ UNCHANGED <<original_cell, notParseVars>>

\* the cell is edited: a separator at the edge of a piece adds an empty piece
AddEmptyPiece ==
    /\ Len(radicals_cell) < MaxCell
    /\ \E p \in 0..Len(radicals_cell) :
          /\ LeftBlank(radicals_cell, p) \/ RightBlank(radicals_cell, p)
          /\ radicals_cell' = InsertAt(radicals_cell, p, PLUS)
    /\ glyphs' = EmptyMap
    /\ UNCHANGED <<original_cell, notParseVars>>

NextParse ==
    \/ ParseBuilder
    \/ ParseVerify
    \/ ParseValidate
    \/ PadWhitespace
    \/ AddEmptyPiece

SpecParse == InitParse /\ [][NextParse]_vars

\* a sequence without its repetitions, first occurrences kept
RECURSIVE FirstOccurrences(_)
FirstOccurrences(seq) ==
    IF seq = <<>> THEN <<>>
    ELSE LET front == FirstOccurrences(SubSeq(seq, 1, Len(seq) - 1))
         IN  IF seq[Len(seq)] \in Range(front) THEN front
             ELSE Append(front, seq[Len(seq)])

\* a glyph is neither empty nor has whitespace at either end
ProperGlyph(g) == g # <<>> /\ Strip(g) = g

(***************************************************************************)
(* C24: the three programs make the same glyph sequence of a cell, the     *)
(* sequence has no empty and no untrimmed glyph, and it is the sequence of *)
(* the cell as it was before whitespace was put around pieces and empty    *)
(* pieces were added; the builder's usage map has just these glyphs as     *)
(* keys, in the order of their first occurrence, each counted as often as  *)
(* it occurs.                                                              *)
(***************************************************************************)
C24_SameGlyphs ==
    LET seq == ScanPieces(original_cell)
    IN  /\ \A g \in Range(seq) : ProperGlyph(g)
        /\ "verify" \in DOMAIN glyphs => glyphs["verify"] = seq
        /\ "validate" \in DOMAIN glyphs => glyphs["validate"] = seq
        /\ "builder" \in DOMAIN glyphs =>
              /\ glyphs["builder"].order = FirstOccurrences(seq)
              /\ DOMAIN glyphs["builder"].map = Range(seq)
              /\ \A g \in Range(seq) :
                    glyphs["builder"].map[g].count =
                       Cardinality({k \in DOMAIN seq : seq[k] = g})

\* the three programs have read a cell of two glyphs that has been edited
C24_Witness ==
    /\ DOMAIN glyphs = {"builder", "verify", "validate"}
    /\ radicals_cell # original_cell
    /\ Len(glyphs["validate"]) = 2
    /\ Len(Split(radicals_cell, PLUS)) > Len(glyphs["validate"])


(***************************************************************************)
(* validate_radical_data.py and test_word_radical_integration.py           *)
(***************************************************************************)
\* a radicals.csv with the air and the dipper radical only
TwoRows == <<DerivedRow(G_qi, basic), DerivedRow(G_dou, basic)>>

\* the tables the two programs are run on
VrdTables ==
    DerivedFiles \cup {[exists |-> TRUE, header |-> Range(fieldnames), rows |-> TwoRows]}

\* the vocabulary rows and a word of one glyph
VrdVocabRows == VocabRows \cup {VocabRow(G_qi, Qi4, Air, G_qi)}

\* load_radicals / load_radicals_csv: the keys of the dictionary
RadicalKeys(file) == {file.rows[i].Radical : i \in DOMAIN file.rows}

\* load_vocabulary: the word_data of the rows of one level file
LoadVocabulary(files, level) ==
    [i \in 1..Len(files[level].rows) |->
        [word |-> files[level].rows[i].Word,
         pinyin |-> files[level].rows[i].Pinyin,
         english |-> files[level].rows[i].English,
         radicals |-> ParseRadicals(files[level].rows[i].Radicals),
         level |-> level]]

\* variation: one glyph is enough
IsComposable_single(word_data, radicals) ==
    /\ Len(word_data.radicals) >= 1
    /\ \A k \in DOMAIN word_data.radicals : word_data.radicals[k] \in radicals

\* count >= 2 and all(r in radicals for r in word_data['radicals'])
IsComposable(word_data, radicals) ==
    /\ Len(word_data.radicals) >= 2
    /\ \A k \in DOMAIN word_data.radicals : word_data.radicals[k] \in radicals

\* composition_counts after the loop over all_words
CompositionCounts(words) ==
    [n \in {Len(words[i].radicals) : i \in DOMAIN words} |->
        Cardinality({i \in DOMAIN words : Len(words[i].radicals) = n})]

\* word_counts: for each word the levels of its rows, one for each row
LevelsOfWord(words, w) ==
    LET mine == SelectSeq(words, LAMBDA d : d.word = w)
    IN  [i \in 1..Len(mine) |-> mine[i].level]

\* duplicates = {w: levels for w, levels in word_counts.items() if len(levels) > 1}
Duplicates(words) ==
    [w \in {x \in {words[i].word : i \in DOMAIN words} : Len(LevelsOfWord(words, x)) > 1}
       |-> LevelsOfWord(words, w)]

\* load_level_vocabulary: a dictionary keyed by word, the last row of a word stays
LevelVocabulary(files, level) ==
    LET words == LoadVocabulary(files, level)
    IN  [w \in {words[i].word : i \in DOMAIN words} |->
            words[CHOOSE i \in DOMAIN words :
                     /\ words[i].word = w
                     /\ \A j \in (i + 1)..Len(words) : words[j].word # w]]

\* test_level_filtering: composable_count of one level
ComposableCount(files, level, radicals) ==
    LET vocab == LevelVocabulary(files, level)
    IN  Cardinality({w \in DOMAIN vocab : IsComposable(vocab[w], radicals)})

\* open() of radicals.csv or of a level file fails, or a row has no Radical
ReadFails(table, files) ==
    \/ ~table.exists
    \/ table.rows # <<>> /\ "Radical" \notin table.header
    \/ \E lv \in LevelSet : ~files[lv].exists

InitVrd ==
    /\ canonFile = [exists |-> FALSE, rows |-> <<>>]
    /\ vocabFile \in VocabFilesOf(VrdVocabRows)
    /\ derivedFile \in VrdTables
    /\ LocalsInit
    /\ ToolsIdle("vrd")
    /\ VrdIdle

\* main of validate_radical_data.py
ValidateRadicalData ==
    /\ vrdExit = "none"
    /\ IF ReadFails(derivedFile, vocabFile)
       THEN /\ vrdExit' = "exception"
            /\ UNCHANGED <<all_words, composition_counts, composable_words, duplicates>>
       ELSE LET words == LoadVocabulary(vocabFile, basic)
                         \o LoadVocabulary(vocabFile, intermediate)
                         \o LoadVocabulary(vocabFile, advanced)
                radicals == RadicalKeys(derivedFile)
            IN  /\ all_words' = words
                /\ composition_counts' = CompositionCounts(words)
                /\ composable_words' =
                      SelectSeq(words, LAMBDA d : IsComposable(d, radicals))
                /\ duplicates' = Duplicates(words)
                /\ vrdExit' = "done"
    /\ UNCHANGED <<vocabFile, derivedFile, composable_count, tlfExit, notVrdVars>>

\* test_level_filtering of test_word_radical_integration.py
TestLevelFiltering ==
    /\ tlfExit = "none"
    /\ IF ReadFails(derivedFile, vocabFile)
       THEN /\ tlfExit' = "exception"
            /\ UNCHANGED composable_count
       ELSE /\ composable_count' =
                  [lv \in LevelSet |->
                      ComposableCount(vocabFile, lv, RadicalKeys(derivedFile))]
            /\ tlfExit' = "done"
    /\ UNCHANGED <<vocabFile, derivedFile, all_words, composition_counts,
                   composable_words, duplicates, vrdExit, notVrdVars>>

NextVrd ==
    \/ ValidateRadicalData
    \/ TestLevelFiltering

SpecVrd == InitVrd /\ [][NextVrd]_vars


\* the levels in which w is the word of some row
LevelsWithWord(w) ==
    {lv \in LevelSet : \E i \in DOMAIN vocabFile[lv].rows : vocabFile[lv].rows[i].Word = w}

(***************************************************************************)
(* C25 as stated: validate_radical_data runs to its end whatever the       *)
(* duplicate check finds, and the words it reports there are just the      *)
(* words that are in two or more different levels.                         *)
(***************************************************************************)
C25_Original ==
    vrdExit = "done" =>
        DOMAIN duplicates = {w \in VocabWords : Cardinality(LevelsWithWord(w)) >= 2}

\* a row has two or more glyphs and each of them is a key of radicals.csv
ComposableRow(row) ==
    /\ ReferencesIn(row.Radicals) >= 2
    /\ \A g \in UsedGlyphs :
          OccurrencesIn(row.Radicals, g) > 0 => g \in RadicalKeys(derivedFile)

\* the sum of the values of a function with a finite domain
RECURSIVE SumOf(_)
SumOf(f) ==
    IF DOMAIN f = {} THEN 0
    ELSE LET k == CHOOSE x \in DOMAIN f : TRUE
         IN  f[k] + SumOf([x \in DOMAIN f \ {k} |-> f[x]])

\* the last row of level lv whose word is w
LastRowOfWord(lv, w) ==
    vocabFile[lv].rows[CHOOSE i \in DOMAIN vocabFile[lv].rows :
                          /\ vocabFile[lv].rows[i].Word = w
                          /\ \A j \in (i + 1)..Len(vocabFile[lv].rows) :
                                vocabFile[lv].rows[j].Word # w]

(***************************************************************************)
(* C26: validate_radical_data counts a vocabulary row as composable        *)
(* exactly when its decomposition has two or more glyphs and each of them  *)
(* is a key of radicals.csv; the words counted by number of glyphs add up  *)
(* to the number of rows; test_level_filtering counts by the same rule the *)
(* entries of its per-level dictionary, one for each word of the level.    *)
(***************************************************************************)
C26_Composable ==
    /\ vrdExit = "done" =>
          /\ Len(all_words) = Len(AllVocabRows)
          /\ \A i \in DOMAIN all_words :
                (\E k \in DOMAIN composable_words : composable_words[k] = all_words[i])
                   <=> ComposableRow(AllVocabRows[i])
          /\ \A k \in DOMAIN composable_words : Len(composable_words[k].radicals) >= 2
          /\ \A n \in DOMAIN composition_counts :
                composition_counts[n] =
                   Cardinality({i \in DOMAIN AllVocabRows :
                                   ReferencesIn(AllVocabRows[i].Radicals) = n})
          /\ SumOf(composition_counts) = Len(AllVocabRows)
    /\ tlfExit = "done" =>
          \A lv \in LevelSet :
              composable_count[lv] =
                 Cardinality({w \in {vocabFile[lv].rows[i].Word : i \in DOMAIN vocabFile[lv].rows} :
                                 ComposableRow(LastRowOfWord(lv, w))})

\* both programs have run on a vocabulary of two words, one composable and
\* one of a single glyph that is in the table
C26_Witness ==
    /\ vrdExit = "done"
    /\ tlfExit = "done"
    /\ Len(all_words) = 2
    /\ Len(composable_words) = 1
    /\ \E i \in DOMAIN all_words :
          /\ Len(all_words[i].radicals) = 1
          /\ all_words[i].radicals[1] \in RadicalKeys(derivedFile)
    /\ \E lv \in LevelSet : composable_count[lv] = 1


(***************************************************************************)
(* C27: on a table the builder has just written from the same vocabulary,  *)
(* verify_radicals gets through its third check and finds no missing and   *)
(* no wrong-level radical in any level file, and every vocabulary row with *)
(* two or more glyphs is composable.                                       *)
(***************************************************************************)
C27_FreshTableAligned ==
    BuilderDone =>
        /\ verifyExit # "exception"
        /\ verifyExit \in {"return0", "return1"} =>
              \A lv \in LevelSet :
                  vocabFile[lv].exists =>
                     /\ lv \in DOMAIN findings
                     /\ findings[lv].missing = {}
                     /\ findings[lv].wrong = {}
        /\ \A lv \in LevelSet :
              \A i \in DOMAIN vocabFile[lv].rows :
                  LET word_data == LoadVocabulary(vocabFile, lv)[i]
                  IN  Len(word_data.radicals) >= 2 =>
                         IsComposable(word_data, RadicalKeys(derivedFile))

\* the validator has returned on a table written from a vocabulary with words
\* in two levels that share a glyph, one of the words with three glyphs
C27_Witness ==
    /\ BuilderDone
    /\ verifyExit \in {"return0", "return1"}
    /\ Cardinality(DOMAIN findings) = 3
    /\ \E i \in DOMAIN DerivedRows : IsSubstring(<<COMMA>>, DerivedRows[i].Levels)
    /\ \E lv \in LevelSet : \E i \in DOMAIN vocabFile[lv].rows :
          Len(LoadVocabulary(vocabFile, lv)[i].radicals) >= 3
    /\ \A lv \in LevelSet : findings[lv].total = Len(LevelRefs(vocabFile[lv].rows))


(***************************************************************************)
(* add_stroke_counts.py                                                    *)
(***************************************************************************)
MaxStrokeRows == 2

StrokeCount == "StrokeCount"

Unknown == <<117, 110, 107, 110, 111, 119, 110>>  \* "unknown"

\* STROKE_COUNTS: of a repeated key of the dictionary display the last value
\* stays, 10 for the dipper
STROKE_COUNTS == (G_dou :> 10) @@ (G_qi :> 4) @@ (G_che :> 4) @@ (G_shui :> 4)

\* a table as csv holds it: the header line and, for each row, its cells
CsvTable(names, glyph_seq) ==
    [exists |-> TRUE, fieldnames |-> names,
     rows |-> [i \in 1..Len(glyph_seq) |->
                 [k \in 1..Len(names) |->
                    IF names[k] = "Radical" THEN glyph_seq[i] ELSE Qi4]]]

StrokeFiles ==
    {[exists |-> FALSE, fieldnames |-> <<>>, rows |-> <<>>]}
    \cup {CsvTable(names, glyph_seq) :
             names \in {<<"Radical", "Pinyin">>, <<"Radical">>, <<"Pinyin">>},
             glyph_seq \in UNION {[1..n -> {G_dou, G_qi, G_shui_side}] :
                                     n \in 0..MaxStrokeRows}}

\* csv.DictReader: the cell of a row under a column name, the last one when
\* the header has the name more than once; d.get(name, '')
CellOf(names, cells, name) ==
    IF \E k \in DOMAIN names : names[k] = name
    THEN cells[CHOOSE k \in DOMAIN names :
                  /\ names[k] = name
                  /\ \A j \in (k + 1)..Len(names) : names[j] # name]
    ELSE <<>>

\* str(STROKE_COUNTS.get(radical, 'unknown'))
StrokeText(radical) ==
    IF radical \in DOMAIN STROKE_COUNTS THEN IntToStr(STROKE_COUNTS[radical]) ELSE Unknown

\* add_stroke_count_column(path, path): the file after it has been rewritten
add_stroke_count_column(file) ==
    LET new_fieldnames == Append(file.fieldnames, StrokeCount)
    IN  [exists |-> TRUE, fieldnames |-> new_fieldnames,
         rows |-> [i \in 1..Len(file.rows) |->
                     [k \in 1..Len(new_fieldnames) |->
                        IF new_fieldnames[k] = StrokeCount
                        THEN StrokeText(CellOf(file.fieldnames, file.rows[i], "Radical"))
                        ELSE CellOf(file.fieldnames, file.rows[i], new_fieldnames[k])]]]

InitStroke ==
    /\ canonFile = [exists |-> FALSE, rows |-> <<>>]
    /\ vocabFile = [lv \in LevelSet |-> [exists |-> FALSE, rows |-> <<>>]]
    /\ derivedFile = [exists |-> FALSE, header |-> {}, rows |-> <<>>]
    /\ LocalsInit
    /\ ToolsIdle("stroke")
    /\ radicals_file \in StrokeFiles
    /\ radicals_214_file \in StrokeFiles
    /\ sc_pc = "idle"
    /\ sc_runs = 0

\* main: radicals.csv, when it is there
AddStrokeRadicals ==
    /\ sc_pc = "idle"
    /\ sc_runs < MaxRuns
    /\ radicals_file' = IF radicals_file.exists
                        THEN add_stroke_count_column(radicals_file)
                        ELSE radicals_file
    /\ sc_pc' = "second"
    /\ UNCHANGED <<radicals_214_file, sc_runs, notStrokeVars>>

\* main: radicals_214.csv, when it is there
AddStroke214 ==
    /\ sc_pc = "second"
    /\ radicals_214_file' = IF radicals_214_file.exists
                            THEN add_stroke_count_column(radicals_214_file)
                            ELSE radicals_214_file
    /\ sc_pc' = "idle"
    /\ sc_runs' = sc_runs + 1
    /\ UNCHANGED <<radicals_file, notStrokeVars>>

NextStroke ==
    \/ AddStrokeRadicals
    \/ AddStroke214

SpecStroke == InitStroke /\ [][NextStroke]_vars

\* a table without its StrokeCount columns
WithoutStrokeCount(file) ==
    LET keep == {k \in DOMAIN file.fieldnames : file.fieldnames[k] # StrokeCount}
        Pick(cells) == LET kept == SortedStrs({<<k>> : k \in keep})
                       IN  [j \in 1..Len(kept) |-> cells[kept[j][1]]]
    IN  [exists |-> file.exists, fieldnames |-> Pick(file.fieldnames),
         rows |-> [i \in 1..Len(file.rows) |-> Pick(file.rows[i])]]

(***************************************************************************)
(* C28 as stated: after one run of add_stroke_counts or after any number   *)
(* of runs, a radical table that is there has the StrokeCount column       *)
(* exactly once, its other columns and cells are as they were, and the     *)
(* StrokeCount of each row is the STROKE_COUNTS value of its glyph or      *)
(* "unknown".                                                              *)
(***************************************************************************)
C28_Original ==
    \A file \in {radicals_file, radicals_214_file} :
        (file.exists /\ sc_runs >= 1 /\ sc_pc = "idle") =>
            /\ Cardinality({k \in DOMAIN file.fieldnames :
                               file.fieldnames[k] = StrokeCount}) = 1
            /\ WithoutStrokeCount(file) \in StrokeFiles
            /\ \A i \in DOMAIN file.rows :
                  CellOf(file.fieldnames, file.rows[i], StrokeCount) =
                     StrokeText(CellOf(file.fieldnames, file.rows[i], "Radical"))


(***************************************************************************)
(* split_all_levels.py                                                     *)
(***************************************************************************)
MaxNames == 2

Mp3 == <<46, 109, 112, 51>>  \* ".mp3"

\* the first names of main's two lists
intermediate_hanzi ==
    <<<<33258, 24049>> \o Mp3, <<22823, 23478>> \o Mp3, <<21035, 20154>> \o Mp3>>

advanced_hanzi ==
    <<<<24444, 27492>> \o Mp3, <<26412, 20154>> \o Mp3, <<20219, 20309>> \o Mp3>>

\* the non-silent ranges detect_nonsilent may report, [start, end] in ms
CandidateRanges == <<<<0, 400>>, <<1000, 1400>>, <<2000, 2380>>, <<3000, 3400>>>>

\* the ranges of a set of positions, in the order of the recording
RangesAt(positions) ==
    LET order == SortedStrs({<<k>> : k \in positions})
    IN  [j \in 1..Len(order) |-> CandidateRanges[order[j][1]]]

Audios ==
    {[length |-> 3420, segments |-> RangesAt(positions)] :
        positions \in SUBSET (1..Len(CandidateRanges))}

\* audio[padded_start:padded_end], named by its two ends
Clip(a, range) ==
    LET padded_start == IF range[1] - 50 > 0 THEN range[1] - 50 ELSE 0
        padded_end == IF range[2] + 50 < a.length THEN range[2] + 50 ELSE a.length
    IN  <<padded_start, padded_end>>

\* a variation: every clip under the first name
HanziName_first(mapping, i) == mapping[1]

\* hanzi_mapping[idx-1], idx counted from 1
HanziName(mapping, i) == mapping[i]

OldFile == <<"old">>

InitAudio ==
    /\ canonFile = [exists |-> FALSE, rows |-> <<>>]
    /\ vocabFile = [lv \in LevelSet |-> [exists |-> FALSE, rows |-> <<>>]]
    /\ derivedFile = [exists |-> FALSE, header |-> {}, rows |-> <<>>]
    /\ LocalsInit
    /\ ToolsIdle("audio")
    /\ audio \in Audios
    /\ hanzi_mapping \in {SubSeq(intermediate_hanzi, 1, MaxNames),
                          SubSeq(advanced_hanzi, 1, MaxNames)}
    /\ output_dir \in {<<>>} \cup {(hanzi_mapping[k] :> OldFile) : k \in DOMAIN hanzi_mapping}
    /\ idx = 1
    /\ processed_count = 0
    /\ exported = <<>>
    /\ split_pc = "idle"

\* AudioSegment.from_file and detect_nonsilent succeed
SplitLoad ==
    /\ split_pc = "idle"
    /\ split_pc' = "loop"
    /\ UNCHANGED <<audio, hanzi_mapping, output_dir, idx, processed_count, exported,
                   notAudioVars>>

\* loading raises: except Exception, return False
SplitLoadFails ==
    /\ split_pc = "idle"
    /\ split_pc' = "False"
    /\ UNCHANGED <<audio, hanzi_mapping, output_dir, idx, processed_count, exported,
                   notAudioVars>>

\* one turn of the loop: continue past the end of the list, else export
SplitSegment ==
    /\ split_pc = "loop"
    /\ idx <= Len(audio.segments)
    /\ IF idx > Len(hanzi_mapping)
       THEN UNCHANGED <<output_dir, processed_count, exported>>
       ELSE LET hanzi_name == HanziName(hanzi_mapping, idx)
            IN  /\ output_dir' = (hanzi_name :> Clip(audio, audio.segments[idx])) @@ output_dir
                /\ exported' = Append(exported, hanzi_name)
                /\ processed_count' = processed_count + 1
    /\ idx' = idx + 1
    /\ UNCHANGED <<audio, hanzi_mapping, split_pc, notAudioVars>>

\* normalize or export raises: except Exception, return False
SplitExportFails ==
    /\ split_pc = "loop"
    /\ idx <= Len(audio.segments)
    /\ idx <= Len(hanzi_mapping)
    /\ split_pc' = "False"
    /\ UNCHANGED <<audio, hanzi_mapping, output_dir, idx, processed_count, exported,
                   notAudioVars>>

\* the loop is over: return True
SplitReturn ==
    /\ split_pc = "loop"
    /\ idx > Len(audio.segments)
    /\ split_pc' = "True"
    /\ UNCHANGED <<audio, hanzi_mapping, output_dir, idx, processed_count, exported,
                   notAudioVars>>

NextAudio ==
    \/ SplitLoad
    \/ SplitLoadFails
    \/ SplitSegment
    \/ SplitExportFails
    \/ SplitReturn

SpecAudio == InitAudio /\ [][NextAudio]_vars

(***************************************************************************)
(* C29: split_level_audio maps the detected segments onto the list by      *)
(* position.  The i-th export is of the i-th segment under the i-th name,  *)
(* segments past the end of the list are not exported, no name is          *)
(* exported twice, and when the call returns True the number of exported   *)
(* clips is min(number of segments, number of names).                      *)
(***************************************************************************)
C29_PositionalMapping ==
    /\ Len(exported) <= Len(hanzi_mapping)
    /\ Len(exported) <= Len(audio.segments)
    /\ processed_count = Len(exported)
    /\ \A i \in DOMAIN exported :
          /\ exported[i] = hanzi_mapping[i]
          /\ output_dir[exported[i]] = Clip(audio, audio.segments[i])
    /\ \A i, j \in DOMAIN exported : exported[i] = exported[j] => i = j
    /\ split_pc = "True" =>
          processed_count = Min(Len(audio.segments), Len(hanzi_mapping))

\* more segments than names, every name written, an older file replaced
C29_Witness ==
    /\ split_pc = "True"
    /\ Len(audio.segments) > Len(hanzi_mapping)
    /\ processed_count = Len(hanzi_mapping)
    /\ processed_count >= 2
    /\ \A name \in DOMAIN output_dir : output_dir[name] # OldFile


(***************************************************************************)
(* validate_multilang.py                                                   *)
(***************************************************************************)
MaxFaults == 1

EXPECTED_LANGUAGES ==
    [chinese |-> [code |-> "zh-CN",
                  csv_columns |-> <<"Category", "Word", "Pinyin", "English">>,
                  audio_path_style |-> "chinese"],
     japanese |-> [code |-> "ja-JP",
                   csv_columns |-> <<"Category", "Word", "Reading", "Romanization", "English">>,
                   audio_path_style |-> "Japanese"],
     korean |-> [code |-> "ko-KR",
                 csv_columns |-> <<"Category", "Word", "Romanization", "English">>,
                 audio_path_style |-> "Korean"]]

\* the keys of EXPECTED_LANGUAGES in the order of the display
LanguageOrder == <<"chinese", "japanese", "korean">>

\* config["levels"], the same list for every language
ConfigLevels == <<"basic", "intermediate", "advanced">>

AllLevels == "all_levels"

\* f"{lang}_{level}" and f"{lang}_all_levels"
EntryId(lang, lvl) == <<lang, lvl>>

\* f"languages/{lang}/{level}.csv"
ExpectedFile(lang, lvl) == <<"languages", lang, lvl>>

EntryFields == {"language", "type", "file", "languagePath"}

\* an entry of the index as the project means it
GoodEntry(lang, lvl) ==
    [language |-> EXPECTED_LANGUAGES[lang].code,
     type |-> IF lvl = AllLevels THEN "merged" ELSE "level",
     file |-> ExpectedFile(lang, lvl),
     languagePath |-> lang]

\* a value of a field that is not the expected one
OtherValue(field) == IF field = "file" THEN <<"elsewhere">> ELSE "other"

\* the ways a project tree may depart from the expected one
NoFault == <<"none", "", "", "">>

Faults ==
    {<<"index_absent", "", "", "">>}
    \cup {<<"entry_missing", lang, lvl, "">> :
             lang \in Range(LanguageOrder), lvl \in Range(ConfigLevels) \cup {AllLevels}}
    \cup {<<"entry_wrong", lang, lvl, field>> :
             lang \in Range(LanguageOrder), lvl \in Range(ConfigLevels) \cup {AllLevels},
             field \in EntryFields}
    \cup {<<"lang_dir_missing", lang, "", "">> : lang \in Range(LanguageOrder)}
    \cup {<<kind, lang, lvl, "">> :
             kind \in {"csv_missing", "csv_unreadable", "csv_no_rows", "audio_level_missing"},
             lang \in Range(LanguageOrder), lvl \in Range(ConfigLevels)}
    \cup UNION {{<<kind, lang, lvl, col>> :
                    kind \in {"csv_lacks_column", "csv_header_only_lacks_column"},
                    lvl \in Range(ConfigLevels),
                    col \in Range(EXPECTED_LANGUAGES[lang].csv_columns)} :
                lang \in Range(LanguageOrder)}
    \cup {<<"audio_missing", lang, "", "">> : lang \in Range(LanguageOrder)}

FaultSets == {Range(f) \ {NoFault} : f \in [1..MaxFaults -> Faults \cup {NoFault}]}

\* the project tree with the faults fs
IndexWith(fs) ==
    [exists |-> <<"index_absent", "", "", "">> \notin fs,
     entries |->
        LET ids == {EntryId(lang, lvl) :
                       lang \in Range(LanguageOrder),
                       lvl \in Range(ConfigLevels) \cup {AllLevels}}
            present == {id \in ids : <<"entry_missing", id[1], id[2], "">> \notin fs}
        IN  [id \in present |->
               [field \in EntryFields |->
                  IF <<"entry_wrong", id[1], id[2], field>> \in fs
                  THEN OtherValue(field)
                  ELSE GoodEntry(id[1], id[2])[field]]]]

LangDirsWith(fs) ==
    [lang \in Range(LanguageOrder) |-> <<"lang_dir_missing", lang, "", "">> \notin fs]

CsvFilesWith(fs) ==
    [f \in Range(LanguageOrder) \X Range(ConfigLevels) |->
        LET lang == f[1]
            lvl == f[2]
            lacking == {col \in Range(EXPECTED_LANGUAGES[lang].csv_columns) :
                           \E kind \in {"csv_lacks_column", "csv_header_only_lacks_column"} :
                              <<kind, lang, lvl, col>> \in fs}
        IN  [exists |-> /\ LangDirsWith(fs)[lang]
                        /\ <<"csv_missing", lang, lvl, "">> \notin fs,
             readable |-> <<"csv_unreadable", lang, lvl, "">> \notin fs,
             header |-> Range(EXPECTED_LANGUAGES[lang].csv_columns) \ lacking,
             nrows |-> IF \/ <<"csv_no_rows", lang, lvl, "">> \in fs
                          \/ \E col \in lacking :
                                <<"csv_header_only_lacks_column", lang, lvl, col>> \in fs
                       THEN 0 ELSE 1]]

AudioDirsWith(fs) ==
    [lang \in Range(LanguageOrder) |->
        [exists |-> <<"audio_missing", lang, "", "">> \notin fs,
         level_dirs |-> {lvl \in Range(ConfigLevels) :
                           /\ <<"audio_missing", lang, "", "">> \notin fs
                           /\ <<"audio_level_missing", lang, lvl, "">> \notin fs}]]

\* the concatenation of F(s[1]), F(s[2]), ...
RECURSIVE FlatMap(_, _)
FlatMap(F(_), s) ==
    IF s = <<>> THEN <<>> ELSE F(Head(s)) \o FlatMap(F, Tail(s))

\* e.get(key): None when the entry lacks the key
When(cond, error) == IF cond THEN <<error>> ELSE <<>>

\* validate_matrix_index(matrix_index)
validate_matrix_index(index) ==
    LET ForLang(lang) ==
            LET all_levels_id == EntryId(lang, AllLevels)
                ForAllLevels ==
                    IF all_levels_id \notin DOMAIN index.entries
                    THEN <<<<"Missing merged entry", lang, AllLevels>>>>
                    ELSE LET all_levels_entry == index.entries[all_levels_id]
                         IN  When(all_levels_entry.language # EXPECTED_LANGUAGES[lang].code,
                                  <<"wrong language code", lang, AllLevels>>)
                             \o When(all_levels_entry.type # "merged",
                                     <<"should have type='merged'", lang, AllLevels>>)
                ForLevel(lvl) ==
                    LET level_id == EntryId(lang, lvl)
                    IN  IF level_id \notin DOMAIN index.entries
                        THEN <<<<"Missing entry", lang, lvl>>>>
                        ELSE LET level_entry == index.entries[level_id]
                             IN  When(level_entry.file # ExpectedFile(lang, lvl),
                                      <<"wrong file path", lang, lvl>>)
                                 \o When(level_entry.languagePath # lang,
                                         <<"wrong languagePath", lang, lvl>>)
            IN  ForAllLevels \o FlatMap(ForLevel, ConfigLevels)
    IN  FlatMap(ForLang, LanguageOrder)

\* validate_csv_files(): the errors
validate_csv_files(dirs, files) ==
    LET ForLang(lang) ==
            LET ForLevel(lvl) ==
                    LET csv == files[<<lang, lvl>>]
                        ForColumn(required_col) ==
                            When(required_col \notin csv.header,
                                 <<"missing column", lang, lvl, required_col>>)
                    IN  IF ~csv.exists THEN <<<<"Missing CSV", lang, lvl>>>>
                        ELSE IF ~csv.readable THEN <<<<"Error reading", lang, lvl>>>>
                        ELSE IF csv.nrows > 0
                             THEN FlatMap(ForColumn, EXPECTED_LANGUAGES[lang].csv_columns)
                             ELSE <<>>
            IN  IF ~dirs[lang] THEN <<<<"Missing language directory", lang, "">>>>
                ELSE FlatMap(ForLevel, ConfigLevels)
    IN  FlatMap(ForLang, LanguageOrder)

\* validate_audio_folders()
validate_audio_folders(dirs) ==
    LET ForLang(lang) ==
            LET ForLevel(lvl) ==
                    When(lvl \notin dirs[lang].level_dirs,
                         <<"Missing audio level folder", lang, lvl>>)
            IN  IF ~dirs[lang].exists THEN <<<<"Missing audio folder", lang, "">>>>
                ELSE FlatMap(ForLevel, ConfigLevels)
    IN  FlatMap(ForLang, LanguageOrder)

InitMultilang ==
    /\ canonFile = [exists |-> FALSE, rows |-> <<>>]
    /\ vocabFile = [lv \in LevelSet |-> [exists |-> FALSE, rows |-> <<>>]]
    /\ derivedFile = [exists |-> FALSE, header |-> {}, rows |-> <<>>]
    /\ LocalsInit
    /\ ToolsIdle("multilang")
    /\ \E fs \in FaultSets :
          /\ matrix_index = IndexWith(fs)
          /\ lang_dirs = LangDirsWith(fs)
          /\ csv_files = CsvFilesWith(fs)
          /\ audio_dirs = AudioDirsWith(fs)
    /\ all_errors = <<>>
    /\ ml_pc = "start"
    /\ ml_exit = -1

\* main: load_matrix_index(); sys.exit(1) when the file is not there
LoadMatrixIndex ==
    /\ ml_pc = "start"
    /\ IF matrix_index.exists
       THEN /\ ml_pc' = "index"
            /\ UNCHANGED ml_exit
       ELSE /\ ml_pc' = "done"
            /\ ml_exit' = 1
    /\ UNCHANGED <<matrix_index, lang_dirs, csv_files, audio_dirs, all_errors,
                   notMultilangVars>>

ValidateMatrixIndex ==
    /\ ml_pc = "index"
    /\ all_errors' = all_errors \o validate_matrix_index(matrix_index)
    /\ ml_pc' = "csv"
    /\ UNCHANGED <<matrix_index, lang_dirs, csv_files, audio_dirs, ml_exit,
                   notMultilangVars>>

ValidateCsvFiles ==
    /\ ml_pc = "csv"
    /\ all_errors' = all_errors \o validate_csv_files(lang_dirs, csv_files)
    /\ ml_pc' = "audio"
    /\ UNCHANGED <<matrix_index, lang_dirs, csv_files, audio_dirs, ml_exit,
                   notMultilangVars>>

ValidateAudioFolders ==
    /\ ml_pc = "audio"
    /\ all_errors' = all_errors \o validate_audio_folders(audio_dirs)
    /\ ml_pc' = "summary"
    /\ UNCHANGED <<matrix_index, lang_dirs, csv_files, audio_dirs, ml_exit,
                   notMultilangVars>>

\* main: the coverage report prints only; then sys.exit(1) or sys.exit(0)
Summary ==
    /\ ml_pc = "summary"
    /\ ml_exit' = IF all_errors # <<>> THEN 1 ELSE 0
    /\ ml_pc' = "done"
    /\ UNCHANGED <<matrix_index, lang_dirs, csv_files, audio_dirs, all_errors,
                   notMultilangVars>>

NextMultilang ==
    \/ LoadMatrixIndex
    \/ ValidateMatrixIndex
    \/ ValidateCsvFiles
    \/ ValidateAudioFolders
    \/ Summary

SpecMultilang == InitMultilang /\ [][NextMultilang]_vars

(***************************************************************************)
(* C30 as stated: validate_multilang exits with status 0 only if, for      *)
(* every expected language and each of its levels, the level file is there *)
(* and its header has every required column of the language, the index has *)
(* the level entry with the expected file and languagePath and the         *)
(* all_levels entry with the expected language code and type, and the      *)
(* audio folders are there.                                                *)
(***************************************************************************)
C30_Original ==
    ml_exit = 0 =>
        \A lang \in Range(LanguageOrder) :
            /\ EntryId(lang, AllLevels) \in DOMAIN matrix_index.entries
            /\ matrix_index.entries[EntryId(lang, AllLevels)].language =
                  EXPECTED_LANGUAGES[lang].code
            /\ matrix_index.entries[EntryId(lang, AllLevels)].type = "merged"
            /\ audio_dirs[lang].exists
            /\ \A lvl \in Range(ConfigLevels) :
                  /\ csv_files[<<lang, lvl>>].exists
                  /\ Range(EXPECTED_LANGUAGES[lang].csv_columns) \subseteq
                        csv_files[<<lang, lvl>>].header
                  /\ EntryId(lang, lvl) \in DOMAIN matrix_index.entries
                  /\ matrix_index.entries[EntryId(lang, lvl)].file = ExpectedFile(lang, lvl)
                  /\ matrix_index.entries[EntryId(lang, lvl)].languagePath = lang
                  /\ lvl \in audio_dirs[lang].level_dirs

====
